---- MODULE Spec2Model ----
(***************************************************************************)
(* A model of oas-sandbox: the session-scoped state store (in-memory,      *)
(* append-log file and networked backends) and the request pipeline that   *)
(* drives it through scenario actions and template expressions.            *)
(*                                                                         *)
(* Time is Date.now() in milliseconds.  A JS Map is a sequence of          *)
(* [k, e] pairs in insertion order.  JSON values are tagged records.       *)
(* `undefined` is the value Undef; an absent expiresAt / ttl is 0 / NoTtl. *)
(***************************************************************************)
EXTENDS Integers, Sequences, FiniteSets, TLC

(* ------------------------------ bounds -------------------------------- *)
MaxTime == 2000
ClockStep == 500
MaxOps == 3
MaxRules == 2
NTasks == 2
NFTasks == 1

(* ------------------------- program constants -------------------------- *)
MsPerSec == 1000
WheelSize == 3600
DefaultMaxSize == 10000

(* ------------------------------ values -------------------------------- *)
Fields == {"f", "g"}
NoFields == [x \in Fields |-> 0]
Undef == [t |-> "undef", n |-> 0, s |-> "", a |-> <<>>, o |-> NoFields]
NumV(i) == [t |-> "num", n |-> i, s |-> "", a |-> <<>>, o |-> NoFields]
StrV(str) == [t |-> "str", n |-> 0, s |-> str, a |-> <<>>, o |-> NoFields]
ArrV(seq) == [t |-> "arr", n |-> 0, s |-> "", a |-> seq, o |-> NoFields]
ObjV(fn) == [t |-> "obj", n |-> 0, s |-> "", a |-> <<>>, o |-> fn]

NoTtl == 0 - 1
Tasks == 1 .. NTasks
FTasks == 1 .. NFTasks
Keys == {"k1", "k2"}
CapKeys == {"", "k1", "k2"}
CapSizes == {1, 2}
SetVals == {NumV(1), ArrV(<<1>>)}
PatchVals == {ArrV(<<2>>), ObjV([x \in Fields |-> IF x = "f" THEN 1 ELSE 0])}
Ttls == {NoTtl, 1, 2}
Bys == {1}
FKeys == {"k1"}
FSetVals == {NumV(1), ArrV(<<1>>)}
FPatchVals == {ArrV(<<2>>)}
FTtls == {NoTtl, 1}

(* --------------------------- JS Map helpers --------------------------- *)
MapHas(m, k) == \E i \in DOMAIN m : m[i].k = k
MapIdx(m, k) == CHOOSE i \in DOMAIN m : m[i].k = k
MapGet(m, k) == m[MapIdx(m, k)].e
MapSet(m, k, e) ==
  IF MapHas(m, k) THEN [m EXCEPT ![MapIdx(m, k)] = [k |-> k, e |-> e]]
  ELSE Append(m, [k |-> k, e |-> e])
MapDelete(m, k) == SelectSeq(m, LAMBDA x : x.k # k)

Max(a, b) == IF a >= b THEN a ELSE b
FloorSec(ms) == ms \div MsPerSec

VARIABLES
  now,          \* Date.now()
  budget,       \* operations the callers may still start
  mcache,       \* MemoryStore.cache
  maxSize,      \* MemoryStore.maxSize
  defaultTtl,   \* MemoryStore.defaultTtl (0: undefined)
  wheel,        \* MemoryStore.wheel: Map keyed by <<slot, key>>
  lastCleanup,  \* MemoryStore.lastCleanup
  mtask,        \* per caller: the suspended increment / patch call
  contract,     \* per key: what the caller last asked of the store
  proc,         \* the process: "running" | "down"
  fcache,       \* FileStore.cache
  finit,        \* FileStore.isInitialized
  fhandle,      \* FileStore.logFileHandle: "none" | "open" | "closed"
  fchain,       \* FileStore.pendingWrites: the queued writes, or rejected
  flog,         \* <base>.log on disk
  fsnap,        \* <base>.snapshot on disk
  ftmp,         \* <base>.snapshot.tmp on disk
  ftask,        \* per caller: the suspended store call
  fcomp,        \* the compact() call in progress
  ftimer,       \* FileStore.compactionTimer is set
  fclose,       \* the close() calls in progress
  signalled,    \* a termination signal has arrived
  fsaved,       \* the cache as it was at the last crash, close() or signal
  rdb,          \* the Redis server's keyspace
  rret,         \* RedisStore: the outcome of the last call
  rpatch,       \* RedisStore: the fallback patch between its read and its write
  req,          \* the request being handled
  obs,          \* what the last read of the handled requests observed
  writer,       \* per stored key: the client that last wrote it
  sandbox,      \* Sandbox: its options and the router's scenarios
  hr,           \* Sandbox.handleRequest: the call in progress and what it sent
  te,           \* TemplateEngine: its generator, and what its calls ran and returned
  ld            \* OpenAPILoader: the outcome of load, its operations, the last dispatch

memVars == <<mcache, maxSize, defaultTtl, wheel, lastCleanup, mtask>>
fileVars == <<proc, fcache, finit, fhandle, fchain, flog, fsnap, ftmp, ftask, fcomp,
              ftimer, fclose, signalled, fsaved>>
redisVars == <<rdb, rret, rpatch>>
reqVars == <<req, obs, writer>>
sbVars == <<sandbox, hr>>
vars == <<now, budget, memVars, contract, fileVars, redisVars, reqVars, sbVars, te,
          ld>>

(* ------------------------- in-memory backend -------------------------- *)
Expired(e, t) == e.expiresAt # 0 /\ e.expiresAt <= t

\* get(key): the value returned
MemGetResult(c, k, t) ==
  IF ~MapHas(c, k) THEN Undef
  ELSE IF Expired(MapGet(c, k), t) THEN Undef
  ELSE MapGet(c, k).value

\* get(key): the cache afterwards (lazy expiry)
MemGetCache(c, k, t) ==
  IF MapHas(c, k) /\ Expired(MapGet(c, k), t) THEN MapDelete(c, k) ELSE c

EvictOldest(c) ==
  IF Len(c) > 0 /\ c[1].k # "" THEN MapDelete(c, c[1].k) ELSE c

EffectiveTtl(ttl) == IF ttl = NoTtl THEN defaultTtl ELSE ttl

SetExpiresAt(ttl, t) ==
  IF EffectiveTtl(ttl) # 0 THEN t + EffectiveTtl(ttl) * MsPerSec ELSE 0

MemEntry(v, ttl, t) == [value |-> v, expiresAt |-> SetExpiresAt(ttl, t)]

\* set(key, value, ttl): the cache afterwards
MemSetCache(c, k, v, ttl, t) ==
  LET c1 == IF Len(c) >= maxSize /\ ~MapHas(c, k) THEN EvictOldest(c) ELSE c
  IN MapSet(c1, k, MemEntry(v, ttl, t))

ScheduleExpiration(w, k, e, expirationTime) ==
  MapSet(w, <<expirationTime % WheelSize, k>>, e)

\* set(key, value, ttl): the wheel afterwards
MemSetWheel(w, k, v, ttl, t) ==
  IF SetExpiresAt(ttl, t) # 0
  THEN ScheduleExpiration(w, k, MemEntry(v, ttl, t), FloorSec(SetExpiresAt(ttl, t)))
  ELSE w

\* increment / patch: the ttl handed to set() to "preserve" the expiry
RemainingTtl(c, k, t) ==
  IF MapHas(c, k) /\ MapGet(c, k).expiresAt # 0
  THEN Max(0, FloorSec(MapGet(c, k).expiresAt - t))
  ELSE NoTtl

IncrementValue(current, by) == (IF current.t = "num" THEN current.n ELSE 0) + by

IsPlainObject(v) == v.t = "obj"
IsArray(v) == v.t = "arr"

\* patch that replaces whatever the key holds
MergeValueReplaces(existing, value) == value

MergeValue(existing, value) ==
  IF IsPlainObject(existing) /\ IsPlainObject(value)
  THEN ObjV([x \in Fields |-> IF value.o[x] # 0 THEN value.o[x] ELSE existing.o[x]])
  ELSE IF IsArray(existing) /\ IsArray(value)
  THEN ArrV(existing.a \o value.a)
  ELSE value

Idle == [pc |-> "idle", op |-> "none", key |-> "", arg |-> Undef, by |-> 0,
         current |-> Undef, ret |-> Undef, at |-> 0]

\* cleanup(): one wheel slot
SlotExpired(w, slot, t) ==
  {i \in DOMAIN w : w[i].k[1] = slot /\ Expired(w[i].e, t)}
CleanupSlotCache(c, w, slot, t) ==
  SelectSeq(c, LAMBDA x : ~(\E i \in SlotExpired(w, slot, t) : w[i].k[2] = x.k))
CleanupSlotWheel(w, slot, t) ==
  SelectSeq(w, LAMBDA x : ~(x.k[1] = slot /\ Expired(x.e, t)))

\* cleanup(): every slot from lastCleanup + 1 to the current second
RECURSIVE CleanupCache(_, _, _, _)
CleanupCache(c, w, lc, t) ==
  IF lc < FloorSec(t)
  THEN CleanupCache(CleanupSlotCache(c, w, (lc + 1) % WheelSize, t),
                    CleanupSlotWheel(w, (lc + 1) % WheelSize, t), lc + 1, t)
  ELSE c
RECURSIVE CleanupWheel(_, _, _)
CleanupWheel(w, lc, t) ==
  IF lc < FloorSec(t)
  THEN CleanupWheel(CleanupSlotWheel(w, (lc + 1) % WheelSize, t), lc + 1, t)
  ELSE w

(* ------------------ the caller's record of its requests ---------------- *)
NoContract == [kind |-> "none", v |-> Undef, exp |-> 0]
ContractSet(k, v, ttl) ==
  contract' = [contract EXCEPT ![k] =
    [kind |-> "set", v |-> v, exp |-> IF ttl = NoTtl THEN 0 ELSE now + ttl * MsPerSec]]
ContractDel(k) ==
  contract' = [contract EXCEPT ![k] = [kind |-> "del", v |-> Undef, exp |-> 0]]
ContractOther(k) ==
  contract' = [contract EXCEPT ![k] = [kind |-> "other", v |-> Undef, exp |-> 0]]
\* an increment applied in one piece to what the caller last asked for
ContractInc(k, by) ==
  contract' = [contract EXCEPT ![k] =
    IF contract[k].kind \in {"none", "del"}
    THEN [kind |-> "inc", v |-> NumV(by), exp |-> 0]
    ELSE IF contract[k].kind \in {"set", "inc"} /\ contract[k].exp = 0
    THEN [kind |-> "inc", v |-> NumV(IncrementValue(contract[k].v, by)), exp |-> 0]
    ELSE [kind |-> "other", v |-> Undef, exp |-> 0]]

(* ---------------------- in-memory backend: actions --------------------- *)
MSet(k, v, ttl) ==
  /\ budget > 0
  /\ budget' = budget - 1
  /\ mcache' = MemSetCache(mcache, k, v, ttl, now)
  /\ wheel' = MemSetWheel(wheel, k, v, ttl, now)
  /\ ContractSet(k, v, ttl)
  /\ UNCHANGED <<now, maxSize, defaultTtl, lastCleanup, mtask,
                 fileVars, redisVars, sbVars, reqVars, te, ld>>

MGet(k) ==
  /\ mcache' = MemGetCache(mcache, k, now)
  /\ mcache' # mcache
  /\ UNCHANGED <<now, budget, maxSize, defaultTtl, wheel, lastCleanup, mtask, contract,
                 fileVars, redisVars, sbVars, reqVars, te, ld>>

MDel(k) ==
  /\ budget > 0
  /\ budget' = budget - 1
  /\ mcache' = MapDelete(mcache, k)
  /\ ContractDel(k)
  /\ UNCHANGED <<now, maxSize, defaultTtl, wheel, lastCleanup, mtask,
                 fileVars, redisVars, sbVars, reqVars, te, ld>>

\* increment(key, by) up to `await this.get(key)`
MIncBegin(t, k, by) ==
  /\ budget > 0
  /\ budget' = budget - 1
  /\ mtask[t].pc = "idle"
  /\ mtask' = [mtask EXCEPT ![t] = [pc |-> "inc", op |-> "inc", key |-> k, arg |-> Undef,
                                    by |-> by, current |-> MemGetResult(mcache, k, now),
                                    ret |-> Undef, at |-> now]]
  /\ mcache' = MemGetCache(mcache, k, now)
  /\ UNCHANGED <<now, maxSize, defaultTtl, wheel, lastCleanup, contract,
                 fileVars, redisVars, sbVars, reqVars, te, ld>>

\* increment(key, by) from the resumption to the return
MIncFinish(t) ==
  LET k == mtask[t].key
      newValue == NumV(IncrementValue(mtask[t].current, mtask[t].by))
      ttl == RemainingTtl(mcache, k, now)
  IN /\ mtask[t].pc = "inc"
     /\ mcache' = MemSetCache(mcache, k, newValue, ttl, now)
     /\ wheel' = MemSetWheel(wheel, k, newValue, ttl, now)
     /\ mtask' = [mtask EXCEPT ![t].pc = "idle", ![t].ret = newValue, ![t].at = 0]
     /\ ContractInc(k, mtask[t].by)
     /\ UNCHANGED <<now, budget, maxSize, defaultTtl, lastCleanup,
                    fileVars, redisVars, sbVars, reqVars, te, ld>>

\* patch(key, value) up to `await this.get(key)`
MPatchBegin(t, k, v) ==
  /\ budget > 0
  /\ budget' = budget - 1
  /\ mtask[t].pc = "idle"
  /\ mtask' = [mtask EXCEPT ![t] = [pc |-> "patch", op |-> "patch", key |-> k, arg |-> v,
                                    by |-> 0, current |-> MemGetResult(mcache, k, now),
                                    ret |-> Undef, at |-> now]]
  /\ mcache' = MemGetCache(mcache, k, now)
  /\ UNCHANGED <<now, maxSize, defaultTtl, wheel, lastCleanup, contract,
                 fileVars, redisVars, sbVars, reqVars, te, ld>>

\* patch(key, value) from the resumption to the return
MPatchFinish(t) ==
  LET k == mtask[t].key
      existing == mtask[t].current
      merged == IF existing = Undef THEN mtask[t].arg ELSE MergeValue(existing, mtask[t].arg)
      ttl == IF existing = Undef THEN NoTtl ELSE RemainingTtl(mcache, k, now)
  IN /\ mtask[t].pc = "patch"
     /\ mcache' = MemSetCache(mcache, k, merged, ttl, now)
     /\ wheel' = MemSetWheel(wheel, k, merged, ttl, now)
     /\ mtask' = [mtask EXCEPT ![t].pc = "idle", ![t].at = 0]
     /\ ContractOther(k)
     /\ UNCHANGED <<now, budget, maxSize, defaultTtl, lastCleanup,
                    fileVars, redisVars, sbVars, reqVars, te, ld>>

\* the setInterval callback
MCleanup ==
  /\ lastCleanup < FloorSec(now)
  /\ mcache' = CleanupCache(mcache, wheel, lastCleanup, now)
  /\ wheel' = CleanupWheel(wheel, lastCleanup, now)
  /\ lastCleanup' = FloorSec(now)
  /\ UNCHANGED <<now, budget, maxSize, defaultTtl, mtask, contract,
                 fileVars, redisVars, sbVars, reqVars, te, ld>>

\* the clock advances by ClockStep; a shutdown in progress is taken to complete
\* within one step of it
Tick ==
  /\ now + ClockStep <= MaxTime
  /\ ~signalled
  /\ now' = now + ClockStep
  /\ UNCHANGED <<budget, memVars, contract, fileVars, redisVars, sbVars, reqVars, te, ld>>

\* the constructor; an option of 0 stands for one not given
MemoryStoreNew(optMaxSize) ==
  /\ mcache = <<>>
  /\ maxSize = IF optMaxSize # 0 THEN optMaxSize ELSE DefaultMaxSize
  /\ defaultTtl = 0
  /\ wheel = <<>>
  /\ lastCleanup = 0
  /\ mtask = [t \in Tasks |-> Idle]

InitMemStore == MemoryStoreNew(0)

MemStep ==
  \/ \E k \in Keys, v \in SetVals, ttl \in Ttls : MSet(k, v, ttl)
  \/ \E k \in Keys : MGet(k)
  \/ \E k \in Keys : MDel(k)
  \/ \E t \in Tasks, k \in Keys, by \in Bys : MIncBegin(t, k, by)
  \/ \E t \in Tasks : MIncFinish(t)
  \/ \E t \in Tasks, k \in Keys, v \in PatchVals : MPatchBegin(t, k, v)
  \/ \E t \in Tasks : MPatchFinish(t)
  \/ MCleanup

(* ------------------------- append-log file backend --------------------- *)
FEntry(v, exp) == [value |-> v, expiresAt |-> exp]
LogRec(op, k, v, ttl, ts) == [op |-> op, key |-> k, value |-> v, ttl |-> ttl, ts |-> ts]
Failed == [t |-> "error", n |-> 0, s |-> "", a |-> <<>>, o |-> NoFields]

\* get(key): the value returned
FileGetResult(c, k, t) ==
  IF ~MapHas(c, k) THEN Undef
  ELSE IF Expired(MapGet(c, k), t) THEN Undef
  ELSE MapGet(c, k).value

FileSetExpiresAt(ttl, t) == IF ttl # NoTtl /\ ttl # 0 THEN t + ttl * MsPerSec ELSE 0
LogTtl(ttl) == IF ttl # NoTtl /\ ttl # 0 THEN ttl ELSE 0

\* increment / patch: expiresAt of the entry written
KeptExpiresAt(c, k) == IF MapHas(c, k) THEN MapGet(c, k).expiresAt ELSE 0

\* `existing?.value || 0` in applyLogEntry
OrZero(v) ==
  IF v.t = "undef" \/ (v.t = "num" /\ v.n = 0) \/ (v.t = "str" /\ v.s = "") THEN NumV(0) ELSE v

ReplayIncrement(c, r) ==
  LET cur == OrZero(IF MapHas(c, r.key) THEN MapGet(c, r.key).value ELSE Undef)
      newValue == IF cur.t = "num" THEN NumV(cur.n + r.value.n) ELSE r.value
  IN IF MapHas(c, r.key)
     THEN MapSet(c, r.key, [MapGet(c, r.key) EXCEPT !.value = newValue])
     ELSE MapSet(c, r.key, FEntry(newValue, 0))

ReplayPatch(c, r) ==
  IF MapHas(c, r.key)
  THEN LET ex == MapGet(c, r.key).value
           merged == IF IsPlainObject(ex) /\ IsPlainObject(r.value)
                     THEN ObjV([x \in Fields |->
                                 IF r.value.o[x] # 0 THEN r.value.o[x] ELSE ex.o[x]])
                     ELSE IF IsArray(ex) /\ IsArray(r.value)
                     THEN ArrV(ex.a \o r.value.a)
                     ELSE r.value
       IN MapSet(c, r.key, [MapGet(c, r.key) EXCEPT !.value = merged])
  ELSE MapSet(c, r.key, FEntry(r.value, 0))

ApplyLogEntry(c, r) ==
  IF r.op = "set"
  THEN MapSet(c, r.key, FEntry(r.value, IF r.ttl # 0 THEN r.ts + r.ttl * MsPerSec ELSE 0))
  ELSE IF r.op = "del" THEN MapDelete(c, r.key)
  ELSE IF r.op = "increment" THEN ReplayIncrement(c, r)
  ELSE ReplayPatch(c, r)

RECURSIVE ReplayLog(_, _)
ReplayLog(c, log) ==
  IF log = <<>> THEN c ELSE ReplayLog(ApplyLogEntry(c, Head(log)), Tail(log))

RECURSIVE LoadFromSnapshot(_, _, _)
LoadFromSnapshot(c, lines, t) ==
  IF lines = <<>> THEN c
  ELSE LoadFromSnapshot(IF Expired(Head(lines).e, t) THEN c
                        ELSE MapSet(c, Head(lines).k, Head(lines).e),
                        Tail(lines), t)

\* initialize(): the cache after loadFromSnapshot() and replayLog()
InitializedCache(c, snap, log, t) == ReplayLog(LoadFromSnapshot(c, snap, t), log)

\* snapshot(): the lines written for the entries captured
SnapshotLines(entries, t) == SelectSeq(entries, LAMBDA x : ~Expired(x.e, t))

\* appendLog(): skipped without a handle, rejected on a rejected chain, else queued
AppendOutcome ==
  IF fhandle = "none" THEN "skip" ELSE IF fchain.failed THEN "rejected" ELSE "queued"
ChainAfterAppend(t, rec) ==
  IF AppendOutcome = "queued"
  THEN [fchain EXCEPT !.q = Append(@, [t |-> t, rec |-> rec])]
  ELSE fchain
HasJob(t) == \E i \in DOMAIN fchain.q : fchain.q[i].t = t

\* the caller after its appendLog() call: waiting, returned, or thrown
AfterAppend(task, ret) ==
  IF AppendOutcome = "queued" THEN [task EXCEPT !.pc = "ack", !.ret = ret]
  ELSE IF AppendOutcome = "skip" THEN [task EXCEPT !.pc = "idle", !.ret = ret]
  ELSE [task EXCEPT !.pc = "idle", !.ret = Failed]

Ok == [t |-> "ok", n |-> 0, s |-> "", a |-> <<>>, o |-> NoFields]
\* requests are served until the signal handler's `await server.close()` returns
Serving == ~(signalled /\ fclose["server"].pc # "idle")
CanCall(t) == proc = "running" /\ Serving /\ finit /\ ftask[t].pc = "idle" /\ budget > 0
NewTask(op, k, arg, by) ==
  [pc |-> "idle", op |-> op, key |-> k, arg |-> arg, by |-> by, current |-> Undef, ret |-> Undef,
   at |-> 0]

(* ------------------- append-log file backend: actions ------------------ *)
\* set(key, value, ttl) up to `await this.appendLog(...)`
FSet(t, k, v, ttl) ==
  /\ CanCall(t)
  /\ budget' = budget - 1
  /\ fcache' = MapSet(fcache, k, FEntry(v, FileSetExpiresAt(ttl, now)))
  /\ fchain' = ChainAfterAppend(t, LogRec("set", k, v, LogTtl(ttl), now))
  /\ ftask' = [ftask EXCEPT ![t] = AfterAppend(NewTask("set", k, v, 0), Ok)]
  /\ UNCHANGED <<memVars, contract, redisVars, sbVars, reqVars, te, ld,
                 now, proc, finit, fhandle, flog, fsnap, ftmp, fcomp, ftimer, fclose, signalled, fsaved>>

\* del(key) up to `await this.appendLog(...)`
FDel(t, k) ==
  /\ CanCall(t)
  /\ budget' = budget - 1
  /\ fcache' = MapDelete(fcache, k)
  /\ fchain' = ChainAfterAppend(t, LogRec("del", k, Undef, 0, now))
  /\ ftask' = [ftask EXCEPT ![t] = AfterAppend(NewTask("del", k, Undef, 0), Ok)]
  /\ UNCHANGED <<memVars, contract, redisVars, sbVars, reqVars, te, ld,
                 now, proc, finit, fhandle, flog, fsnap, ftmp, fcomp, ftimer, fclose, signalled, fsaved>>

\* get(key) of an expired entry, up to `await this.appendLog(...)`
FGetExpired(t, k) ==
  /\ proc = "running" /\ Serving /\ finit /\ ftask[t].pc = "idle"
  /\ MapHas(fcache, k) /\ Expired(MapGet(fcache, k), now)
  /\ fcache' = MapDelete(fcache, k)
  /\ fchain' = ChainAfterAppend(t, LogRec("del", k, Undef, 0, now))
  /\ ftask' = [ftask EXCEPT ![t] = AfterAppend(NewTask("get", k, Undef, 0), Undef)]
  /\ UNCHANGED <<memVars, contract, redisVars, sbVars, reqVars, te, ld,
                 now, budget, proc, finit, fhandle, flog, fsnap, ftmp, fcomp, ftimer, fclose,
                 signalled, fsaved>>

\* increment / patch: the inner get(key), up to its first suspension
FReadBegin(t, k, task, midpc) ==
  IF MapHas(fcache, k) /\ Expired(MapGet(fcache, k), now)
  THEN /\ fcache' = MapDelete(fcache, k)
       /\ fchain' = ChainAfterAppend(t, LogRec("del", k, Undef, 0, now))
       /\ ftask' = [ftask EXCEPT ![t] =
            IF AppendOutcome = "rejected" THEN [task EXCEPT !.ret = Failed]
            ELSE [task EXCEPT !.pc = midpc, !.current = Undef]]
  ELSE /\ ftask' = [ftask EXCEPT ![t] =
            [task EXCEPT !.pc = midpc, !.current = FileGetResult(fcache, k, now)]]
       /\ UNCHANGED <<fcache, fchain>>

\* increment(key, by) up to `await this.get(key)`
FIncBegin(t, k, by) ==
  /\ CanCall(t)
  /\ budget' = budget - 1
  /\ FReadBegin(t, k, NewTask("inc", k, Undef, by), "inc_mid")
  /\ UNCHANGED <<memVars, contract, redisVars, sbVars, reqVars, te, ld,
                 now, proc, finit, fhandle, flog, fsnap, ftmp, fcomp, ftimer, fclose, signalled, fsaved>>

\* increment(key, by) from that resumption to `await this.appendLog(...)`
FIncMid(t) ==
  LET k == ftask[t].key
      newValue == NumV(IncrementValue(ftask[t].current, ftask[t].by))
  IN /\ proc = "running" /\ ftask[t].pc = "inc_mid" /\ ~HasJob(t)
     /\ fcache' = MapSet(fcache, k, FEntry(newValue, KeptExpiresAt(fcache, k)))
     /\ fchain' = ChainAfterAppend(t, LogRec("increment", k, NumV(ftask[t].by), 0, now))
     /\ ftask' = [ftask EXCEPT ![t] = AfterAppend(ftask[t], newValue)]
     /\ UNCHANGED <<memVars, contract, redisVars, sbVars, reqVars, te, ld,
                 now, budget, proc, finit, fhandle, flog, fsnap, ftmp, fcomp, ftimer, fclose,
                    signalled, fsaved>>

\* patch(key, value) up to `await this.get(key)`
FPatchBegin(t, k, v) ==
  /\ CanCall(t)
  /\ budget' = budget - 1
  /\ FReadBegin(t, k, NewTask("patch", k, v, 0), "patch_mid")
  /\ UNCHANGED <<memVars, contract, redisVars, sbVars, reqVars, te, ld,
                 now, proc, finit, fhandle, flog, fsnap, ftmp, fcomp, ftimer, fclose, signalled, fsaved>>

\* patch(key, value) from that resumption to `await this.appendLog(...)`
FPatchMid(t) ==
  LET k == ftask[t].key
      existing == ftask[t].current
      merged == IF existing = Undef THEN ftask[t].arg ELSE MergeValue(existing, ftask[t].arg)
  IN /\ proc = "running" /\ ftask[t].pc = "patch_mid" /\ ~HasJob(t)
     /\ fcache' = MapSet(fcache, k, FEntry(merged, KeptExpiresAt(fcache, k)))
     /\ fchain' = ChainAfterAppend(t, LogRec("patch", k, ftask[t].arg, 0, now))
     /\ ftask' = [ftask EXCEPT ![t] = AfterAppend(ftask[t], Ok)]
     /\ UNCHANGED <<memVars, contract, redisVars, sbVars, reqVars, te, ld,
                 now, budget, proc, finit, fhandle, flog, fsnap, ftmp, fcomp, ftimer, fclose,
                    signalled, fsaved>>

\* the call returns once its log record is written and synced
FAck(t) ==
  /\ proc = "running" /\ ftask[t].pc = "ack" /\ ~HasJob(t)
  /\ ftask' = [ftask EXCEPT ![t].pc = "idle"]
  /\ UNCHANGED <<memVars, contract, redisVars, sbVars, reqVars, te, ld,
                 now, budget, proc, fcache, finit, fhandle, fchain, flog, fsnap, ftmp, fcomp, ftimer,
                 fclose, signalled, fsaved>>

\* the head of the write chain: write() and sync() on the open handle
LogWriteOk ==
  /\ proc = "running" /\ fchain.q # <<>> /\ fhandle = "open"
  /\ flog' = Append(flog, Head(fchain.q).rec)
  /\ fchain' = [fchain EXCEPT !.q = Tail(@)]
  /\ fclose' = [c \in DOMAIN fclose |->
                 [fclose[c] EXCEPT !.wait = IF @ > 0 THEN @ - 1 ELSE 0]]
  /\ UNCHANGED <<memVars, contract, redisVars, sbVars, reqVars, te, ld,
                 now, budget, proc, fcache, finit, fhandle, fsnap, ftmp, ftask, fcomp, ftimer,
                 signalled, fsaved>>

\* the head of the write chain on a closed or missing handle: the chain stays
\* rejected and every call waiting on it throws
LogWriteFail ==
  /\ proc = "running" /\ fchain.q # <<>> /\ fhandle # "open"
  /\ fchain' = [q |-> <<>>, failed |-> TRUE]
  /\ ftask' = [t \in Tasks |->
                IF HasJob(t) THEN [ftask[t] EXCEPT !.pc = "idle", !.ret = Failed]
                ELSE ftask[t]]
  /\ fclose' = [c \in DOMAIN fclose |-> [fclose[c] EXCEPT !.wait = 0]]
  /\ UNCHANGED <<memVars, contract, redisVars, sbVars, reqVars, te, ld,
                 now, budget, proc, fcache, finit, fhandle, flog, fsnap, ftmp, fcomp, ftimer,
                 signalled, fsaved>>

(* ------------- snapshot(), compact(), close(), initialize() ------------ *)
\* a snapshot() call in progress: the entries captured and the inode its
\* descriptor refers to; `wait` counts the queued writes close() awaits
NoSnap == [pc |-> "idle", entries |-> <<>>, gen |-> 0, wait |-> 0]
Closers == {"store", "server"}

\* fs.open(tempPath, 'w'): truncate the file at that path, or create a new one
TmpAfterOpen ==
  IF ftmp.exists THEN [ftmp EXCEPT !.lines = <<>>]
  ELSE [exists |-> TRUE, gen |-> ftmp.gen + 1, lines |-> <<>>]

\* the writes through the descriptor land in whichever path now names its inode
TmpAfterWrite(sn) ==
  IF ftmp.exists /\ ftmp.gen = sn.gen
  THEN [ftmp EXCEPT !.lines = SnapshotLines(sn.entries, now)] ELSE ftmp
SnapAfterWrite(sn) ==
  IF ~(ftmp.exists /\ ftmp.gen = sn.gen) /\ fsnap.gen = sn.gen
  THEN [fsnap EXCEPT !.lines = SnapshotLines(sn.entries, now)] ELSE fsnap

\* fs.rename(tempPath, snapshotPath)
SnapAfterRename == [gen |-> ftmp.gen, lines |-> ftmp.lines]
TmpAfterRename == [ftmp EXCEPT !.exists = FALSE, !.lines = <<>>]

\* compact() on the timer: snapshot() up to the resumption after fs.open
CompStart ==
  /\ proc = "running" /\ ftimer /\ fcomp.pc = "idle" /\ budget > 0
  /\ budget' = budget - 1
  /\ ftmp' = TmpAfterOpen
  /\ fcomp' = [pc |-> "snap_write", entries |-> fcache, gen |-> TmpAfterOpen.gen, wait |-> 0]
  /\ UNCHANGED <<memVars, contract, redisVars, sbVars, reqVars, te, ld,
                 now, proc, fcache, finit, fhandle, fchain, flog, fsnap, ftask, ftimer,
                 fclose, signalled, fsaved>>

CompSnapWrite ==
  /\ proc = "running" /\ fcomp.pc = "snap_write"
  /\ ftmp' = TmpAfterWrite(fcomp)
  /\ fsnap' = SnapAfterWrite(fcomp)
  /\ fcomp' = [fcomp EXCEPT !.pc = "snap_rename"]
  /\ UNCHANGED <<memVars, contract, redisVars, sbVars, reqVars, te, ld,
                 now, budget, proc, fcache, finit, fhandle, fchain, flog, ftask, ftimer,
                 fclose, signalled, fsaved>>

CompSnapRename ==
  /\ proc = "running" /\ fcomp.pc = "snap_rename" /\ ftmp.exists
  /\ fsnap' = SnapAfterRename
  /\ ftmp' = TmpAfterRename
  /\ fcomp' = [fcomp EXCEPT !.pc = "close_handle"]
  /\ UNCHANGED <<memVars, contract, redisVars, sbVars, reqVars, te, ld,
                 now, budget, proc, fcache, finit, fhandle, fchain, flog, ftask, ftimer,
                 fclose, signalled, fsaved>>

\* the rename finds no temp file: snapshot() throws and compact() gives up
CompSnapRenameFail ==
  /\ proc = "running" /\ fcomp.pc = "snap_rename" /\ ~ftmp.exists
  /\ fcomp' = NoSnap
  /\ UNCHANGED <<memVars, contract, redisVars, sbVars, reqVars, te, ld,
                 now, budget, proc, fcache, finit, fhandle, fchain, flog, fsnap, ftmp, ftask,
                 ftimer, fclose, signalled, fsaved>>

CompCloseHandle ==
  /\ proc = "running" /\ fcomp.pc = "close_handle"
  /\ fhandle' = IF fhandle = "none" THEN "none" ELSE "closed"
  /\ fcomp' = [fcomp EXCEPT !.pc = "truncate"]
  /\ UNCHANGED <<memVars, contract, redisVars, sbVars, reqVars, te, ld,
                 now, budget, proc, fcache, finit, fchain, flog, fsnap, ftmp, ftask, ftimer,
                 fclose, signalled, fsaved>>

CompTruncate ==
  /\ proc = "running" /\ fcomp.pc = "truncate"
  /\ flog' = <<>>
  /\ fcomp' = [fcomp EXCEPT !.pc = "reopen"]
  /\ UNCHANGED <<memVars, contract, redisVars, sbVars, reqVars, te, ld,
                 now, budget, proc, fcache, finit, fhandle, fchain, fsnap, ftmp, ftask, ftimer,
                 fclose, signalled, fsaved>>

CompReopen ==
  /\ proc = "running" /\ fcomp.pc = "reopen"
  /\ fhandle' = "open"
  /\ fcomp' = NoSnap
  /\ UNCHANGED <<memVars, contract, redisVars, sbVars, reqVars, te, ld,
                 now, budget, proc, fcache, finit, fchain, flog, fsnap, ftmp, ftask, ftimer,
                 fclose, signalled, fsaved>>

\* close() up to `await this.pendingWrites`
CloseBegin(c) ==
  /\ ftimer' = FALSE
  /\ fclose' = [fclose EXCEPT ![c] =
       IF fchain.failed THEN [NoSnap EXCEPT !.pc = "failed"]
       ELSE [NoSnap EXCEPT !.pc = "wait_writes", !.wait = Len(fchain.q)]]

\* the record of that moment: the cache, whether every call made so far had
\* returned, and the operations the callers had left
Saved(kind) ==
  [kind |-> kind, cache |-> fcache, budget |-> budget - 1,
   quiet |-> (\A t \in Tasks : ftask[t].pc = "idle") /\ fchain.q = <<>> /\ ~fchain.failed]

\* the owner of the store calls close()
ApiClose ==
  /\ proc = "running" /\ finit /\ ~signalled /\ fclose["server"].pc = "idle" /\ budget > 0
  /\ budget' = budget - 1
  /\ CloseBegin("server")
  /\ fsaved' = Saved("close")
  /\ UNCHANGED <<memVars, contract, redisVars, sbVars, reqVars, te, ld,
                 now, proc, fcache, finit, fhandle, fchain, flog, fsnap, ftmp, ftask, fcomp,
                 signalled>>

\* SIGINT / SIGTERM: the handler the store registered runs first
Signal ==
  /\ proc = "running" /\ finit /\ ~signalled /\ fclose["server"].pc = "idle" /\ budget > 0
  /\ budget' = budget - 1
  /\ signalled' = TRUE
  /\ CloseBegin("store")
  /\ fsaved' = Saved("signal")
  /\ UNCHANGED <<memVars, contract, redisVars, sbVars, reqVars, te, ld,
                 now, proc, fcache, finit, fhandle, fchain, flog, fsnap, ftmp, ftask, fcomp>>

\* the server's handler, after `await server.close()`, calls sandbox.close()
ServerClose ==
  /\ proc = "running" /\ signalled /\ fclose["server"].pc = "idle"
  /\ CloseBegin("server")
  /\ UNCHANGED <<memVars, contract, redisVars, sbVars, reqVars, te, ld,
                 now, budget, proc, fcache, finit, fhandle, fchain, flog, fsnap, ftmp, ftask,
                 fcomp, signalled, fsaved>>

\* close(): the awaited writes are done; snapshot() up to the resumption after fs.open
CloseSnapOpen(c) ==
  /\ proc = "running" /\ fclose[c].pc = "wait_writes" /\ fclose[c].wait = 0
  /\ ftmp' = TmpAfterOpen
  /\ fclose' = [fclose EXCEPT ![c] =
       [pc |-> "snap_write", entries |-> fcache, gen |-> TmpAfterOpen.gen, wait |-> 0]]
  /\ UNCHANGED <<memVars, contract, redisVars, sbVars, reqVars, te, ld,
                 now, budget, proc, fcache, finit, fhandle, fchain, flog, fsnap, ftask, fcomp,
                 ftimer, signalled, fsaved>>

CloseSnapWrite(c) ==
  /\ proc = "running" /\ fclose[c].pc = "snap_write"
  /\ ftmp' = TmpAfterWrite(fclose[c])
  /\ fsnap' = SnapAfterWrite(fclose[c])
  /\ fclose' = [fclose EXCEPT ![c].pc = "snap_rename"]
  /\ UNCHANGED <<memVars, contract, redisVars, sbVars, reqVars, te, ld,
                 now, budget, proc, fcache, finit, fhandle, fchain, flog, ftask, fcomp,
                 ftimer, signalled, fsaved>>

CloseSnapRename(c) ==
  /\ proc = "running" /\ fclose[c].pc = "snap_rename" /\ ftmp.exists
  /\ fsnap' = SnapAfterRename
  /\ ftmp' = TmpAfterRename
  /\ fclose' = [fclose EXCEPT ![c].pc = "close_handle"]
  /\ UNCHANGED <<memVars, contract, redisVars, sbVars, reqVars, te, ld,
                 now, budget, proc, fcache, finit, fhandle, fchain, flog, ftask, fcomp,
                 ftimer, signalled, fsaved>>

\* the rename finds no temp file: snapshot() and close() throw
CloseSnapRenameFail(c) ==
  /\ proc = "running" /\ fclose[c].pc = "snap_rename" /\ ~ftmp.exists
  /\ fclose' = [fclose EXCEPT ![c] = [NoSnap EXCEPT !.pc = "failed"]]
  /\ UNCHANGED <<memVars, contract, redisVars, sbVars, reqVars, te, ld,
                 now, budget, proc, fcache, finit, fhandle, fchain, flog, fsnap, ftmp, ftask,
                 fcomp, ftimer, signalled, fsaved>>

\* close() after snapshot(): `if (this.logFileHandle) await ...close()`
CloseHandle(c) ==
  /\ proc = "running" /\ fclose[c].pc = "close_handle" /\ fhandle # "none"
  /\ fhandle' = "closed"
  /\ fclose' = [fclose EXCEPT ![c].pc = "clear"]
  /\ UNCHANGED <<memVars, contract, redisVars, sbVars, reqVars, te, ld,
                 now, budget, proc, fcache, finit, fchain, flog, fsnap, ftmp, ftask, fcomp,
                 ftimer, signalled, fsaved>>

\* close(): logFileHandle = undefined (when it was set); cache.clear();
\* isInitialized = false
CloseClear(c) ==
  /\ proc = "running"
  /\ \/ fclose[c].pc = "clear"
     \/ fclose[c].pc = "close_handle" /\ fhandle = "none"
  /\ fhandle' = "none"
  /\ fcache' = <<>>
  /\ finit' = FALSE
  /\ fclose' = [fclose EXCEPT ![c] = [NoSnap EXCEPT !.pc = "done"]]
  /\ UNCHANGED <<memVars, contract, redisVars, sbVars, reqVars, te, ld,
                 now, budget, proc, fchain, flog, fsnap, ftmp, ftask, fcomp, ftimer,
                 signalled, fsaved>>

\* initialize() on the closed store: loadFromSnapshot, replayLog, open the log
Reopen ==
  /\ proc = "running" /\ ~finit /\ ~signalled /\ fclose["server"].pc = "done"
  /\ fcache' = InitializedCache(fcache, fsnap.lines, flog, now)
  /\ fhandle' = "open"
  /\ ftimer' = TRUE
  /\ finit' = TRUE
  /\ fclose' = [c \in Closers |-> NoSnap]
  /\ UNCHANGED <<memVars, contract, redisVars, sbVars, reqVars, te, ld,
                 now, budget, proc, fchain, flog, fsnap, ftmp, ftask, fcomp, signalled, fsaved>>

\* what dies with the process
ProcessGone ==
  /\ proc' = "down"
  /\ fcache' = <<>>
  /\ finit' = FALSE
  /\ fhandle' = "none"
  /\ fchain' = [q |-> <<>>, failed |-> FALSE]
  /\ ftask' = [t \in Tasks |-> Idle]
  /\ fcomp' = NoSnap
  /\ ftimer' = FALSE
  /\ fclose' = [c \in Closers |-> NoSnap]
  /\ signalled' = FALSE

\* the server's handler reaches process.exit(0) (its close() returned or threw)
Exit ==
  /\ proc = "running" /\ signalled /\ fclose["server"].pc \in {"done", "failed"}
  /\ ProcessGone
  /\ UNCHANGED <<memVars, contract, redisVars, sbVars, reqVars, te, ld,
                 now, budget, flog, fsnap, ftmp, fsaved>>

\* the process is killed
Crash ==
  /\ proc = "running" /\ ~signalled /\ budget > 0
  /\ budget' = budget - 1
  /\ fsaved' = Saved("crash")
  /\ ProcessGone
  /\ UNCHANGED <<memVars, contract, redisVars, sbVars, reqVars, te, ld,
                 now, flog, fsnap, ftmp>>

\* a new process: createStore -> initialize()
Restart ==
  /\ proc = "down"
  /\ proc' = "running"
  /\ fcache' = InitializedCache(<<>>, fsnap.lines, flog, now)
  /\ fhandle' = "open"
  /\ ftimer' = TRUE
  /\ finit' = TRUE
  /\ UNCHANGED <<memVars, contract, redisVars, sbVars, reqVars, te, ld,
                 now, budget, fchain, flog, fsnap, ftmp, ftask, fcomp, fclose, signalled, fsaved>>

\* the store after createStore() on an empty directory
InitFileStore ==
  /\ proc = "running"
  /\ fcache = <<>>
  /\ finit = TRUE
  /\ fhandle = "open"
  /\ fchain = [q |-> <<>>, failed |-> FALSE]
  /\ flog = <<>>
  /\ fsnap = [gen |-> 0, lines |-> <<>>]
  /\ ftmp = [exists |-> FALSE, gen |-> 0, lines |-> <<>>]
  /\ ftask = [t \in Tasks |-> Idle]
  /\ fcomp = NoSnap
  /\ ftimer = TRUE
  /\ fclose = [c \in Closers |-> NoSnap]
  /\ signalled = FALSE
  /\ fsaved = [kind |-> "none", cache |-> <<>>, budget |-> 0, quiet |-> FALSE]

FileStep ==
  \/ \E t \in FTasks, k \in FKeys, v \in FSetVals, ttl \in FTtls : FSet(t, k, v, ttl)
  \/ \E t \in FTasks, k \in FKeys : FDel(t, k)
  \/ \E t \in FTasks, k \in FKeys : FGetExpired(t, k)
  \/ \E t \in FTasks, k \in FKeys, by \in Bys : FIncBegin(t, k, by)
  \/ \E t \in FTasks : FIncMid(t)
  \/ \E t \in FTasks, k \in FKeys, v \in FPatchVals : FPatchBegin(t, k, v)
  \/ \E t \in FTasks : FPatchMid(t)
  \/ \E t \in FTasks : FAck(t)
  \/ LogWriteOk
  \/ LogWriteFail

CompStep ==
  \/ CompStart
  \/ CompSnapWrite
  \/ CompSnapRename
  \/ CompSnapRenameFail
  \/ CompCloseHandle
  \/ CompTruncate
  \/ CompReopen

CloseStep ==
  \/ \E c \in Closers : CloseSnapOpen(c)
  \/ \E c \in Closers : CloseSnapWrite(c)
  \/ \E c \in Closers : CloseSnapRename(c)
  \/ \E c \in Closers : CloseSnapRenameFail(c)
  \/ \E c \in Closers : CloseHandle(c)
  \/ \E c \in Closers : CloseClear(c)

(* --------------------------- networked backend ------------------------- *)
RNums == 0 .. (MaxOps + 1)
RSetVals == {NumV(1), StrV("5"), ArrV(<<1>>)}
RElems == {1, 2}
RArrays == UNION {[1 .. m -> RElems] : m \in 0 .. (MaxOps + 1)}
\* a JSON object that also has the keys "1", "2", ... (held in a)
KeyedV(seq, fn) == [t |-> "obj", n |-> 0, s |-> "", a |-> seq, o |-> fn]
RObjects == {KeyedV(seq, fn) : seq \in RArrays, fn \in [Fields -> {0} \cup RElems]}
RUniverse ==
  {NumV(n) : n \in RNums} \cup RSetVals \cup PatchVals
    \cup {ArrV(seq) : seq \in RArrays} \cup RObjects
FieldOrder == <<"f", "g">>

RECURSIVE JoinNums(_)
JoinNums(seq) ==
  IF seq = <<>> THEN ""
  ELSE IF Len(seq) = 1 THEN ToString(seq[1])
  ELSE ToString(seq[1]) \o "," \o JoinNums(Tail(seq))

RECURSIVE JoinIndexed(_, _)
JoinIndexed(seq, i) ==
  IF i > Len(seq) THEN ""
  ELSE LET this == "\"" \o ToString(i) \o "\":" \o ToString(seq[i])
       IN IF i = Len(seq) THEN this ELSE this \o "," \o JoinIndexed(seq, i + 1)

RECURSIVE JoinFields(_, _)
JoinFields(o, names) ==
  IF names = <<>> THEN ""
  ELSE LET rest == JoinFields(o, Tail(names))
           this == "\"" \o Head(names) \o "\":" \o ToString(o[Head(names)])
       IN IF o[Head(names)] = 0 THEN rest
          ELSE IF rest = "" THEN this ELSE this \o "," \o rest

\* serialize(): JSON.stringify
Serialize(v) ==
  IF v.t = "num" THEN ToString(v.n)
  ELSE IF v.t = "str" THEN "\"" \o v.s \o "\""
  ELSE IF v.t = "arr" THEN "[" \o JoinNums(v.a) \o "]"
  ELSE LET keyed == JoinIndexed(v.a, 1)
           named == JoinFields(v.o, FieldOrder)
       IN "{" \o keyed \o (IF keyed # "" /\ named # "" THEN "," ELSE "") \o named \o "}"

\* deserialize(): JSON.parse
Deserialize(str) == CHOOSE v \in RUniverse : Serialize(v) = str

\* the server's string-to-float conversion (INCRBYFLOAT)
IsFloat(str) == \E n \in RNums : ToString(n) = str
ParseFloat(str) == CHOOSE n \in RNums : ToString(n) = str

RLive(db, k, t) == MapHas(db, k) /\ ~Expired(MapGet(db, k), t)

\* get(key): the value returned
RedisGetResult(db, k, t) ==
  IF RLive(db, k, t) THEN Deserialize(MapGet(db, k).s) ELSE Undef

RCall(op, k, by, prior, out) ==
  [op |-> op, key |-> k, by |-> by, prior |-> prior, out |-> out]

\* set(key, value, ttl): SETEX when a ttl is given, SET otherwise
RSet(k, v, ttl) ==
  /\ budget > 0
  /\ budget' = budget - 1
  /\ rdb' = MapSet(rdb, k, [s |-> Serialize(v),
                            expiresAt |-> IF ttl # NoTtl /\ ttl # 0
                                          THEN now + ttl * MsPerSec ELSE 0])
  /\ rret' = RCall("set", k, 0, Undef, Ok)
  /\ UNCHANGED <<now, memVars, contract, fileVars, reqVars, te, ld, sbVars, rpatch>>

\* del(key): DEL
RDel(k) ==
  /\ budget > 0
  /\ budget' = budget - 1
  /\ rdb' = MapDelete(rdb, k)
  /\ rret' = RCall("del", k, 0, Undef, Ok)
  /\ UNCHANGED <<now, memVars, contract, fileVars, reqVars, te, ld, sbVars, rpatch>>

\* increment(key, by): INCRBYFLOAT on the stored string; the server rejects a
\* string that is not a float, and the call throws
RIncrement(k, by) ==
  LET live == RLive(rdb, k, now)
      prior == RedisGetResult(rdb, k, now)
      str == IF live THEN MapGet(rdb, k).s ELSE "0"
      result == ParseFloat(str) + by
  IN /\ budget > 0
     /\ budget' = budget - 1
     /\ IF IsFloat(str)
        THEN /\ rdb' = MapSet(rdb, k, [s |-> ToString(result),
                                      expiresAt |-> IF live THEN MapGet(rdb, k).expiresAt
                                                    ELSE 0])
             /\ rret' = RCall("increment", k, by, prior, NumV(result))
        ELSE /\ rdb' = rdb
             /\ rret' = RCall("increment", k, by, prior, Failed)
     /\ UNCHANGED <<now, memVars, contract, fileVars, reqVars, te, ld, sbVars, rpatch>>

\* TTL: the remaining time to live in seconds, rounded; -1 without expiry, -2
\* without key
RTtl(db, k, t) ==
  IF ~RLive(db, k, t) THEN 0 - 2
  ELSE IF MapGet(db, k).expiresAt = 0 THEN 0 - 1
  ELSE (MapGet(db, k).expiresAt - t + 500) \div MsPerSec

\* the script's merge: cjson.decode turns JSON arrays and objects alike into
\* tables, and the loop copies every key of the patch into the existing table. A
\* decoded object holds its keys "1", "2", ... as strings, a decoded array holds
\* 1, 2, ... as numbers: after the loop both may be present, cjson.encode writes
\* both under the same name in no fixed order, and the reader keeps either.
LuaIsTable(v) == v.t \in {"arr", "obj"}
LuaMerged(existing, patchValue) ==
  IF ~LuaIsTable(existing) \/ ~LuaIsTable(patchValue) THEN {patchValue}
  ELSE LET n == Max(Len(existing.a), Len(patchValue.a))
           both == IF existing.t = "obj" THEN 1 .. Len(existing.a) ELSE {}
           named == [x \in Fields |-> IF patchValue.o[x] # 0 THEN patchValue.o[x]
                                     ELSE existing.o[x]]
           keyed == {seq \in [1 .. n -> RElems] :
                       \A i \in 1 .. n :
                         IF i > Len(patchValue.a) THEN seq[i] = existing.a[i]
                         ELSE IF i \in both
                         THEN seq[i] \in {existing.a[i], patchValue.a[i]}
                         ELSE seq[i] = patchValue.a[i]}
       IN {IF existing.t = "arr" /\ patchValue.t = "arr" THEN ArrV(seq)
           ELSE KeyedV(seq, named) : seq \in keyed}

\* the fallback's merge: the spread of two objects keeps every key of both
FallbackMerged(existing, value) ==
  IF IsPlainObject(existing) /\ IsPlainObject(value)
  THEN KeyedV(existing.a, MergeValue(existing, value).o)
  ELSE MergeValue(existing, value)

NoFallback == [pc |-> "idle", key |-> "", arg |-> Undef, current |-> Undef, ttl |-> 0]

\* patch(key, value): EVAL of the script, which reads, merges, stores and
\* restores the expiry in one step
RPatchScript(k, v) ==
  LET live == RLive(rdb, k, now)
      prior == RedisGetResult(rdb, k, now)
      ttl == RTtl(rdb, k, now)
  IN /\ budget > 0
     /\ budget' = budget - 1
     /\ \E merged \in (IF live THEN LuaMerged(prior, v) ELSE {v}) :
          rdb' = MapSet(rdb, k, [s |-> Serialize(merged),
                                 expiresAt |-> IF ttl > 0 THEN now + ttl * MsPerSec ELSE 0])
     /\ rret' = RCall("patch", k, 0, prior, Ok)
     /\ UNCHANGED <<now, memVars, contract, fileVars, reqVars, te, ld, sbVars, rpatch>>

\* patch(key, value) when EVAL fails: fallbackPatch reads value and TTL in one
\* pipeline ...
RFallbackRead(k, v) ==
  /\ budget > 0
  /\ rpatch.pc = "idle"
  /\ budget' = budget - 1
  /\ rpatch' = [pc |-> "read", key |-> k, arg |-> v,
                current |-> RedisGetResult(rdb, k, now), ttl |-> RTtl(rdb, k, now)]
  /\ UNCHANGED <<now, memVars, contract, fileVars, reqVars, te, ld, sbVars, rdb, rret>>

\* ... and stores the merged value with SETEX or SET
RFallbackWrite ==
  LET merged == IF rpatch.current = Undef THEN rpatch.arg
                ELSE FallbackMerged(rpatch.current, rpatch.arg)
  IN /\ rpatch.pc = "read"
     /\ rdb' = MapSet(rdb, rpatch.key,
                      [s |-> Serialize(merged),
                       expiresAt |-> IF rpatch.ttl > 0 THEN now + rpatch.ttl * MsPerSec
                                     ELSE 0])
     /\ rret' = RCall("patch", rpatch.key, 0, rpatch.current, Ok)
     /\ rpatch' = NoFallback
     /\ UNCHANGED <<now, budget, memVars, contract, fileVars, reqVars, te, ld, sbVars>>

RedisStep ==
  \/ \E k \in Keys, v \in RSetVals, ttl \in Ttls : RSet(k, v, ttl)
  \/ \E k \in Keys : RDel(k)
  \/ \E k \in Keys, by \in Bys : RIncrement(k, by)

(* --------------------------- request pipeline -------------------------- *)
Headers == {"", "s1", "s2", "GLOBAL"}
Cookies == {"", "c1"}
Auths == {"", "a1"}
LKeys == {"k", "get"}
ReqVals == {NumV(1), StrV("a")}
StateApiMethods == {"get", "set", "patch", "increment", "del"}

FuncV(name) == [t |-> "func", n |-> 0, s |-> name, a |-> <<>>, o |-> NoFields]

\* the cookie first, the header after it
ExtractCookieFirst(hdr, cookie, auth) ==
  IF cookie # "" THEN cookie
  ELSE IF hdr # "" THEN hdr
  ELSE IF auth # "" THEN auth
  ELSE "GLOBAL"

\* extractSessionId over what the three lookups gave ("": undefined or empty,
\* both falsy)
ExtractSessionId(hdr, cookie, auth) ==
  IF hdr # "" THEN hdr
  ELSE IF cookie # "" THEN cookie
  ELSE IF auth # "" THEN auth
  ELSE "GLOBAL"

BuildStateKey(key, sessionId, scope) ==
  IF scope = "global" THEN "global:" \o key
  ELSE "session:" \o sessionId \o ":" \o key

\* the template binding `state` is the stateAPI object: state['K'] is one of
\* its five functions, or undefined
EvalStateIndex(key) == IF key \in StateApiMethods THEN FuncV(key) ELSE Undef

Truthy(v) == ~(v.t = "undef" \/ (v.t = "num" /\ v.n = 0) \/ (v.t = "str" /\ v.s = ""))

\* render(): String(result), or '' for null / undefined
RenderValue(v) ==
  IF v.t = "undef" THEN ""
  ELSE IF v.t = "num" THEN ToString(v.n)
  ELSE IF v.t = "str" THEN v.s
  ELSE IF v.t = "arr" THEN JoinNums(v.a)
  ELSE IF v.t = "func" THEN "async (key, options) => { ... }"
  ELSE "[object Object]"

\* scenario actions: state.set, and `if` on state['K'] answering with
\* {{state['K']}}; ApiGet is a state.get(key) call on the context
ActSet(k, v) == [a |-> "state.set", key |-> k, value |-> v]
ActIf(k) == [a |-> "if", key |-> k, value |-> Undef]
ApiGet(k) == [a |-> "get", key |-> k, value |-> Undef]
Programs ==
  {<<ActSet(k, v), ActIf(k)>> : k \in LKeys, v \in ReqVals}
    \cup {<<ActSet(k, v), ApiGet(k)>> : k \in LKeys, v \in ReqVals}
    \cup {<<ApiGet(k)>> : k \in LKeys}
    \cup {<<ActIf(k)>> : k \in LKeys}

\* who sent the request, as far as the session header tells
Client(hdr, cookie, auth) ==
  IF hdr # "" THEN "header:" \o hdr
  ELSE IF cookie # "" THEN "cookie"
  ELSE IF auth # "" THEN "authorization"
  ELSE "anonymous"

\* an incoming message as Node hands it over: per header the list of its
\* values (none: the header was not sent), the Cookie header as the list of
\* its ;-separated pairs, each pair as its name and the pieces after each =
NoRaw == [xSandboxSession |-> <<>>, hasCookie |-> FALSE, cookie |-> <<>>,
          authorization |-> <<>>]
NoReq == [pc |-> "idle", raw |-> NoRaw, client |-> "", sessionId |-> "", todo |-> <<>>,
          wrote |-> [k \in LKeys |-> Undef], status |-> 0, body |-> "", keys |-> <<>>]
NoObs == [kind |-> "none", key |-> "", got |-> Undef, want |-> Undef,
          reader |-> "", writer |-> ""]

\* handleRequest up to the first action: createContext
ReqBegin(hdr, cookie, auth, prog) ==
  /\ req.pc = "idle" /\ budget > 0
  /\ budget' = budget - 1
  /\ req' = [NoReq EXCEPT !.pc = "run", !.client = Client(hdr, cookie, auth),
                          !.sessionId = ExtractSessionId(hdr, cookie, auth),
                          !.todo = prog, !.status = 200]
  /\ UNCHANGED <<now, memVars, contract, fileVars, redisVars, sbVars, te, ld, obs, writer>>

\* handleStateSet: stateAPI.set -> store.set(fullKey, value, undefined)
ReqStateSet ==
  /\ req.pc = "run" /\ req.todo # <<>> /\ Head(req.todo).a = "state.set"
  /\ LET act == Head(req.todo)
         fullKey == BuildStateKey(act.key, req.sessionId, "session")
     IN /\ mcache' = MemSetCache(mcache, fullKey, act.value, NoTtl, now)
        /\ wheel' = MemSetWheel(wheel, fullKey, act.value, NoTtl, now)
        /\ writer' = MapSet(writer, fullKey, req.client)
        /\ req' = [req EXCEPT !.todo = Tail(@), !.wrote[act.key] = act.value]
  /\ UNCHANGED <<now, budget, maxSize, defaultTtl, lastCleanup, mtask, contract, fileVars,
                 redisVars, sbVars, te, ld, obs>>

\* handleIf: evaluate(when), then the respond action of the branch taken
ReqIf ==
  /\ req.pc = "run" /\ req.todo # <<>> /\ Head(req.todo).a = "if"
  /\ LET act == Head(req.todo)
         condition == EvalStateIndex(act.key)
     IN /\ req' = [req EXCEPT !.todo = Tail(@),
                              !.status = IF Truthy(condition) THEN 200 ELSE 404,
                              !.body = IF Truthy(condition) THEN RenderValue(condition)
                                       ELSE "not found"]
        /\ obs' = [NoObs EXCEPT !.kind = "template", !.key = act.key, !.got = condition,
                                !.want = req.wrote[act.key]]
  /\ UNCHANGED <<now, budget, memVars, contract, fileVars, redisVars, sbVars, te, ld, writer>>

\* stateAPI.get -> store.get(fullKey)
ReqStateGet ==
  /\ req.pc = "run" /\ req.todo # <<>> /\ Head(req.todo).a = "get"
  /\ LET act == Head(req.todo)
         fullKey == BuildStateKey(act.key, req.sessionId, "session")
     IN /\ mcache' = MemGetCache(mcache, fullKey, now)
        /\ obs' = [NoObs EXCEPT !.kind = "get", !.key = act.key,
                                !.got = MemGetResult(mcache, fullKey, now),
                                !.want = req.wrote[act.key],
                                !.reader = req.client,
                                !.writer = IF MapHas(writer, fullKey)
                                           THEN MapGet(writer, fullKey) ELSE ""]
        /\ req' = [req EXCEPT !.todo = Tail(@)]
  /\ UNCHANGED <<now, budget, maxSize, defaultTtl, wheel, lastCleanup, mtask, contract,
                 fileVars, redisVars, sbVars, te, ld, writer>>

\* sendResponse
ReqEnd ==
  /\ req.pc = "run" /\ req.todo = <<>>
  /\ req' = [req EXCEPT !.pc = "idle"]
  /\ UNCHANGED <<now, budget, memVars, contract, fileVars, redisVars, sbVars, te, ld, obs, writer>>

\* a request whose one rule is { state.set: { key, value, scope } }, from a
\* client that sent the header X-Sandbox-Session (hdr, "" for none):
\* createContext, handleStateSet, stateAPI.set -> store.set(fullKey, value)
KeyedSet(hdr, key, scope, value) ==
  /\ req.pc = "idle" /\ budget > 0
  /\ budget' = budget - 1
  /\ LET sessionId == ExtractSessionId(hdr, "", "")
         fullKey == BuildStateKey(key, sessionId, scope)
     IN /\ mcache' = MemSetCache(mcache, fullKey, value, NoTtl, now)
        /\ wheel' = MemSetWheel(wheel, fullKey, value, NoTtl, now)
        /\ writer' = MapSet(writer, fullKey, Client(hdr, "", ""))
        /\ req' = [req EXCEPT !.sessionId = sessionId,
                              !.keys = Append(@, [scope |-> scope, sessionId |-> sessionId,
                                                  key |-> key, fullKey |-> fullKey,
                                                  value |-> value])]
  /\ UNCHANGED <<now, maxSize, defaultTtl, lastCleanup, mtask, contract, fileVars,
                 redisVars, sbVars, te, ld, obs>>

ReqStep ==
  \/ \E hdr \in Headers, cookie \in Cookies, auth \in Auths, prog \in Programs :
       ReqBegin(hdr, cookie, auth, prog)
  \/ ReqStateSet
  \/ ReqIf
  \/ ReqStateGet
  \/ ReqEnd

(* ------------------- Sandbox, Router, ScenarioEngine ------------------- *)
\* operations of the loaded document; NoOp stands for no operation found
Op(id, method, path, status) ==
  [operationId |-> id, method |-> method, path |-> path, status |-> status]
NoOp == Op("", "", "", 0)
Operations == {Op("getItem", "GET", "/items/{id}", 200), Op("addItem", "POST", "/items", 201)}

\* a query parameter or header the request does not carry
Absent == "(undefined)"
QueryVals == {Absent, "a"}
HeaderVals == {Absent, "a"}
NoCond == ""
NoPriority == 0 - 1

\* response bodies: an object with one string member, possibly the marker
\* `$template: true`, and possibly one nested object of the same kind
NoInner == [present |-> FALSE, marker |-> FALSE, msg |-> ""]
Inner(marker, msg) == [present |-> TRUE, marker |-> marker, msg |-> msg]
NoBody == [present |-> FALSE, marker |-> FALSE, msg |-> "", inner |-> NoInner]
Body(marker, msg, inner) == [present |-> TRUE, marker |-> marker, msg |-> msg, inner |-> inner]

\* scenario actions
NoAct ==
  [a |-> "", key |-> "", value |-> Undef, by |-> 0, as |-> "", status |-> 0,
   tflag |-> FALSE, body |-> NoBody, hdrOk |-> TRUE, headers |-> <<>>, when |-> "",
   then |-> <<>>, els |-> <<>>]
Respond(status, tflag, body) ==
  [NoAct EXCEPT !.a = "respond", !.status = status, !.tflag = tflag, !.body = body]
RespondBadHeader(status) == [NoAct EXCEPT !.a = "respond", !.status = status, !.hdrOk = FALSE]
\* respond.headers: header name to value (literal values, which template.render
\* returns as they are)
Headed(respond, headers) == [respond EXCEPT !.headers = headers]
StateSet(key, value) == [NoAct EXCEPT !.a = "state.set", !.key = key, !.value = value]
StateIncrement(key, by, as) ==
  [NoAct EXCEPT !.a = "state.increment", !.key = key, !.by = by, !.as = as]
IfThenElse(when, then, els) ==
  [NoAct EXCEPT !.a = "if", !.when = when, !.then = then, !.els = els]

\* scenario rules
When(id, method, path, negate, query, headers) ==
  [operationId |-> id, method |-> method, path |-> path, negate |-> negate,
   query |-> query, headers |-> headers]
Rule(name, priority, when, do) ==
  [name |-> name, priority |-> priority, when |-> when, do |-> do]

Plain == Body(FALSE, "hello", NoInner)
Catalog ==
  { Rule("count", NoPriority, When("getItem", "", "", FALSE, NoCond, NoCond),
         <<StateIncrement("c", 1, "n"),
           Headed(Respond(200, TRUE, Body(TRUE, "{{vars.n}}", NoInner)), "x-a" :> "count")>>),
    Rule("raise", 1, When("getItem", "", "", FALSE, "a", NoCond),
         <<Headed(Respond(202, FALSE, Plain), "x-a" :> "raise" @@ "x-b" :> "raise"),
           StateSet("k", Undef), Respond(203, FALSE, Plain)>>),
    Rule("branch", 2, When("getItem", "", "", FALSE, NoCond, NoCond),
         <<IfThenElse("req.query.q", <<StateSet("k", NumV(1))>>,
                      <<IfThenElse("vars.n", <<>>, <<>>)>>),
           Headed(Respond(204, FALSE, NoBody), "x-a" :> "branch" @@ "x-c" :> "branch")>>),
    Rule("marked", NoPriority, When("", "post", "/items", FALSE, NoCond, NoCond),
         <<Respond(201, FALSE, Body(TRUE, "{{req.query.q}}", NoInner))>>),
    Rule("flagged", 2, When("", "post", "/items", FALSE, "$regex:^a", "a"),
         <<Respond(201, TRUE, Body(FALSE, "{{req.query.q}}", Inner(TRUE, "{{req.query.q}}")))>>),
    Rule("other", NoPriority, When("addItem", "", "", TRUE, "a", NoCond),
         <<RespondBadHeader(205)>>),
    Rule("noselector", 1, When("", "GET", "", FALSE, NoCond, NoCond),
         <<Headed(Respond(206, FALSE, Plain), "x-b" :> "noselector")>>) }

\* the scenario lists a sandbox is constructed with: rules of the catalogue,
\* no rule twice
ScenarioLists ==
  {list \in UNION {[1 .. n -> Catalog] : n \in 0 .. MaxRules} :
     \A i \in DOMAIN list, j \in DOMAIN list : list[i] = list[j] => i = j}

\* options.validate
ValidateOptions ==
  {[requests |-> TRUE, responses |-> "warn"], [requests |-> FALSE, responses |-> "off"],
   [requests |-> TRUE, responses |-> "strict"]}

\* --- Router ---
Priority(scenario) == IF scenario.priority = NoPriority THEN 0 ELSE scenario.priority

\* the order the scenarios are given in
Unsorted(scenarios) == scenarios

\* Array.prototype.sort with (a, b) => (b.priority || 0) - (a.priority || 0):
\* a stable sort
RECURSIVE InsertScenario(_, _)
InsertScenario(sorted, scenario) ==
  IF sorted = <<>> THEN <<scenario>>
  ELSE IF Priority(Head(sorted)) >= Priority(scenario)
  THEN <<Head(sorted)>> \o InsertScenario(Tail(sorted), scenario)
  ELSE <<scenario>> \o sorted

RECURSIVE SortInto(_, _)
SortInto(sorted, rest) ==
  IF rest = <<>> THEN sorted ELSE SortInto(InsertScenario(sorted, Head(rest)), Tail(rest))

SortScenarios(scenarios) == SortInto(<<>>, scenarios)

ToUpperCase(str) == IF str = "get" THEN "GET" ELSE IF str = "post" THEN "POST" ELSE str

\* new RegExp(pattern).test(actual), for the patterns in use
IsRegex(expected) == expected \in {"$regex:^a"}
RegexTest(expected, actual) == expected = "$regex:^a" /\ actual \in {"a"}

ValueMatches(actual, expected) ==
  IF actual = Absent THEN FALSE
  ELSE IF IsRegex(expected) THEN RegexTest(expected, actual)
  ELSE actual = expected

ScenarioMatches(scenario, operation, q, h) ==
  LET when == scenario.when
      validSelector == when.operationId # "" \/ (when.method # "" /\ when.path # "")
      operationPart ==
        IF when.operationId # "" THEN when.operationId = operation.operationId
        ELSE ToUpperCase(when.method) = operation.method /\ when.path = operation.path
      afterQuery == when.query = NoCond \/ ValueMatches(q, when.query)
      afterHeaders == IF when.headers # NoCond /\ afterQuery
                      THEN ValueMatches(h, when.headers) ELSE afterQuery
  IN IF ~validSelector THEN FALSE
     ELSE IF ~operationPart THEN FALSE
     ELSE IF when.negate THEN ~afterHeaders ELSE afterHeaders

RECURSIVE FindMatchingScenarios(_, _, _, _)
FindMatchingScenarios(scenarios, operation, q, h) ==
  IF scenarios = <<>> THEN <<>>
  ELSE (IF ScenarioMatches(Head(scenarios), operation, q, h) THEN <<Head(scenarios)>>
        ELSE <<>>) \o FindMatchingScenarios(Tail(scenarios), operation, q, h)

\* --- TemplateEngine ---
Exprs == {"vars.n", "req.query.q"}
Raised == [raised |-> TRUE, value |-> Undef]
Returned(v) == [raised |-> FALSE, value |-> v]

\* evaluateWithContext: the expression runs in a function whose parameters are
\* req, session, state, now, uuid, rand, faker, math, util and the built-ins;
\* any other free name is a ReferenceError
EvaluateWithContext(expression, q) ==
  IF expression = "req.query.q" THEN Returned(IF q = Absent THEN Undef ELSE StrV(q))
  ELSE Raised

IsTemplate(template) == \E e \in Exprs : template = "{{" \o e \o "}}"
ExprOf(template) == CHOOSE e \in Exprs : template = "{{" \o e \o "}}"

\* render: each {{expression}} replaced by String(result), or left as it is
\* when the evaluation raises
Render(template, q) ==
  IF ~IsTemplate(template) THEN template
  ELSE LET r == EvaluateWithContext(ExprOf(template), q)
       IN IF r.raised THEN template ELSE RenderValue(r.value)

\* deepProcess: strings rendered, members of objects processed (a nested
\* marker is a member like any other)
DeepProcessInner(inner, q) ==
  IF inner.present THEN [inner EXCEPT !.msg = Render(inner.msg, q)] ELSE inner

\* processTemplate: an object with the marker loses it and is deep-processed;
\* an object without it is searched for members that have it
ProcessTemplateInner(inner, q) ==
  IF inner.present /\ inner.marker
  THEN [inner EXCEPT !.marker = FALSE, !.msg = Render(inner.msg, q)]
  ELSE inner

ProcessTemplate(body, q) ==
  IF ~body.present THEN body
  ELSE IF body.marker
  THEN [body EXCEPT !.marker = FALSE, !.msg = Render(body.msg, q),
                    !.inner = DeepProcessInner(body.inner, q)]
  ELSE [body EXCEPT !.inner = ProcessTemplateInner(body.inner, q)]

\* --- Sandbox ---
NoSandbox == [ready |-> FALSE, source |-> <<>>, scenarios |-> <<>>,
              validate |-> [requests |-> TRUE, responses |-> "warn"]]
NoRes == [status |-> 0, body |-> NoBody, hdrOk |-> TRUE, headers |-> <<>>]
\* a delay as a rule gives it: a number of milliseconds, or a string, "150ms",
\* "p95=300ms" or "<mean>±<jitter><unit>" (unit "": none written)
Delay(kind, mean, jitter, unit) ==
  [kind |-> kind, mean |-> mean, jitter |-> jitter, unit |-> unit]
NoDelay == Delay("none", 0, 0, "")

NoCall ==
  [pc |-> "idle", requestId |-> 0, operation |-> NoOp, q |-> Absent, h |-> Absent,
   invalid |-> FALSE, bodyOk |-> TRUE, match |-> <<>>, next |-> 1, todo |-> <<>>,
   res |-> NoRes, n |-> Undef, started |-> <<>>, ran |-> 0, raisedAt |-> 0,
   responded |-> NoAct, failed |-> FALSE, sent |-> <<>>, delay |-> NoDelay, slept |-> 0,
   responds |-> <<>>]

\* a problem document sent without the correlation header
ProblemWithoutId(status, requestId) ==
  [status |-> status, problem |-> TRUE, body |-> NoBody, xRequestId |-> 0, headers |-> <<>>]

\* sendErrorResponse: the problem document
Problem(status, requestId) ==
  [status |-> status, problem |-> TRUE, body |-> NoBody, xRequestId |-> requestId,
   headers |-> <<>>]
\* sendResponse: what goes out
Response(res, requestId) ==
  [status |-> res.status, problem |-> FALSE, body |-> res.body, xRequestId |-> requestId,
   headers |-> res.headers]

StateKey(key) == BuildStateKey(key, "GLOBAL", "session")

\* initialize(): loadScenarios (an array is taken as it is), router.setScenarios
SandboxInitialize(list, validate) ==
  /\ ~sandbox.ready
  /\ sandbox' = [ready |-> TRUE, source |-> list, scenarios |-> SortScenarios(list),
                 validate |-> validate]
  /\ UNCHANGED <<now, budget, memVars, contract, fileVars, redisVars, reqVars, te, ld, hr>>

\* handleRequest: requestId, parseRequest, parseRequestBody
HrBegin(operation, q, h, invalid, bodyOk) ==
  /\ sandbox.ready /\ hr.pc = "idle" /\ budget > 0
  /\ budget' = budget - 1
  /\ hr' = [NoCall EXCEPT !.pc = "parsed", !.requestId = budget, !.operation = operation,
                          !.q = q, !.h = h, !.invalid = invalid, !.bodyOk = bodyOk]
  /\ UNCHANGED <<now, memVars, contract, fileVars, redisVars, reqVars, te, ld, sandbox>>

\* parseRequestBody rejects
HrParseError ==
  /\ hr.pc = "parsed" /\ ~hr.bodyOk
  /\ hr' = [hr EXCEPT !.pc = "catch"]
  /\ UNCHANGED <<now, budget, memVars, contract, fileVars, redisVars, reqVars, te, ld, sandbox>>

\* router.match returns null: handleUnmatched
HrUnmatched ==
  /\ hr.pc = "parsed" /\ hr.bodyOk /\ hr.operation = NoOp
  /\ hr' = [hr EXCEPT !.pc = "idle", !.sent = Append(@, Problem(404, hr.requestId))]
  /\ UNCHANGED <<now, budget, memVars, contract, fileVars, redisVars, reqVars, te, ld, sandbox>>

\* a request found invalid only after a write to the store
HrInvalidLate ==
  /\ hr.pc = "parsed" /\ hr.bodyOk /\ hr.operation # NoOp
  /\ sandbox.validate.requests /\ hr.invalid
  /\ mcache' = MemSetCache(mcache, StateKey("k"), NumV(1), NoTtl, now)
  /\ hr' = [hr EXCEPT !.pc = "idle", !.sent = Append(@, Problem(400, hr.requestId))]
  /\ UNCHANGED <<now, budget, maxSize, defaultTtl, wheel, lastCleanup, mtask, contract,
                 fileVars, redisVars, reqVars, te, ld, sandbox>>

\* validateRequest returns an error
HrInvalidRequest ==
  /\ hr.pc = "parsed" /\ hr.bodyOk /\ hr.operation # NoOp
  /\ sandbox.validate.requests /\ hr.invalid
  /\ hr' = [hr EXCEPT !.pc = "idle", !.sent = Append(@, Problem(400, hr.requestId))]
  /\ UNCHANGED <<now, budget, memVars, contract, fileVars, redisVars, reqVars, te, ld, sandbox>>

\* createContext, with the scenarios router.match found
HrCreateContext ==
  /\ hr.pc = "parsed" /\ hr.bodyOk /\ hr.operation # NoOp
  /\ ~(sandbox.validate.requests /\ hr.invalid)
  /\ hr' = [hr EXCEPT !.pc = "execute",
                      !.match = FindMatchingScenarios(sandbox.scenarios, hr.operation,
                                                      hr.q, hr.h),
                      !.res = [status |-> 200, body |-> NoBody, hdrOk |-> TRUE,
                               headers |-> <<>>]]
  /\ UNCHANGED <<now, budget, memVars, contract, fileVars, redisVars, reqVars, te, ld, sandbox>>

\* no scenarios: generateDefaultResponse
HrDefaultResponse ==
  /\ hr.pc = "execute" /\ hr.match = <<>>
  /\ hr' = [hr EXCEPT !.pc = "validate", !.res.status = hr.operation.status,
                      !.res.body = Body(FALSE, "generated", NoInner)]
  /\ UNCHANGED <<now, budget, memVars, contract, fileVars, redisVars, reqVars, te, ld, sandbox>>

\* the loop over match.scenarios: executeRule on the next one
HrExecuteRule ==
  /\ hr.pc = "execute" /\ hr.todo = <<>> /\ hr.next <= Len(hr.match)
  /\ hr' = [hr EXCEPT !.todo = hr.match[hr.next].do, !.next = @ + 1,
                      !.started = Append(@, hr.match[hr.next].name)]
  /\ UNCHANGED <<now, budget, memVars, contract, fileVars, redisVars, reqVars, te, ld, sandbox>>

Doing(a) == hr.pc = "execute" /\ hr.todo # <<>> /\ Head(hr.todo).a = a

\* the error is logged and the rule goes on
Swallowed == [hr EXCEPT !.todo = Tail(@), !.ran = @ + 1, !.raisedAt = hr.ran + 1]

\* executeAction's catch logs and rethrows, executeRule and the loop let the
\* error through to handleRequest's catch
Rethrown == [hr EXCEPT !.pc = "catch", !.ran = @ + 1, !.raisedAt = hr.ran + 1]

\* a merge in which the headers already set win
KeepHeaders(resHeaders, headers) == resHeaders @@ headers

\* { ...context.res.headers, ...headers }
MergeHeaders(resHeaders, headers) == headers @@ resHeaders

\* handleRespond
HrRespond ==
  /\ Doing("respond")
  /\ LET respond == Head(hr.todo)
         body == IF respond.body.present /\ respond.tflag
                 THEN ProcessTemplate(respond.body, hr.q) ELSE respond.body
     IN hr' = [hr EXCEPT !.todo = Tail(@), !.ran = @ + 1, !.responded = respond,
                         !.responds = Append(@, respond),
                         !.res = [status |-> respond.status, body |-> body,
                                  hdrOk |-> hr.res.hdrOk /\ respond.hdrOk,
                                  headers |-> MergeHeaders(hr.res.headers, respond.headers)]]
  /\ UNCHANGED <<now, budget, memVars, contract, fileVars, redisVars, reqVars, te, ld, sandbox>>

\* handleStateSet: store.set raises on a value JSON cannot carry (undefined)
HrStateSet ==
  /\ Doing("state.set")
  /\ LET act == Head(hr.todo)
     IN IF act.value = Undef
        THEN /\ hr' = Rethrown
             /\ UNCHANGED <<mcache, wheel>>
        ELSE /\ mcache' = MemSetCache(mcache, StateKey(act.key), act.value, NoTtl, now)
             /\ wheel' = MemSetWheel(wheel, StateKey(act.key), act.value, NoTtl, now)
             /\ hr' = [hr EXCEPT !.todo = Tail(@), !.ran = @ + 1]
  /\ UNCHANGED <<now, budget, maxSize, defaultTtl, lastCleanup, mtask, contract, fileVars,
                 redisVars, reqVars, te, ld, sandbox>>

\* handleStateIncrement: store.increment, then context.vars[as] = result
HrStateIncrement ==
  /\ Doing("state.increment")
  /\ LET act == Head(hr.todo)
         k == StateKey(act.key)
         newValue == NumV(IncrementValue(MemGetResult(mcache, k, now), act.by))
         read == MemGetCache(mcache, k, now)
         ttl == RemainingTtl(read, k, now)
     IN /\ mcache' = MemSetCache(read, k, newValue, ttl, now)
        /\ wheel' = MemSetWheel(wheel, k, newValue, ttl, now)
        /\ hr' = [hr EXCEPT !.todo = Tail(@), !.ran = @ + 1,
                            !.n = IF act.as = "n" THEN newValue ELSE @]
  /\ UNCHANGED <<now, budget, maxSize, defaultTtl, lastCleanup, mtask, contract, fileVars,
                 redisVars, reqVars, te, ld, sandbox>>

\* handleIf: evaluate(when), then the actions of the branch taken
HrIf ==
  /\ Doing("if")
  /\ LET act == Head(hr.todo)
         condition == EvaluateWithContext(act.when, hr.q)
     IN hr' = IF condition.raised THEN Rethrown
              ELSE [hr EXCEPT !.ran = @ + 1,
                              !.todo = (IF Truthy(condition.value) THEN act.then
                                        ELSE act.els) \o Tail(@)]
  /\ UNCHANGED <<now, budget, memVars, contract, fileVars, redisVars, reqVars, te, ld, sandbox>>

\* every scenario has run
HrRulesDone ==
  /\ hr.pc = "execute" /\ hr.match # <<>> /\ hr.todo = <<>> /\ hr.next > Len(hr.match)
  /\ hr' = [hr EXCEPT !.pc = "validate"]
  /\ UNCHANGED <<now, budget, memVars, contract, fileVars, redisVars, reqVars, te, ld, sandbox>>

\* response validation that lets every response through
HrValidateLenient(responseError) ==
  /\ hr.pc = "validate"
  /\ hr' = [hr EXCEPT !.pc = "send",
                      !.failed = responseError /\ sandbox.validate.responses # "off"]
  /\ UNCHANGED <<now, budget, memVars, contract, fileVars, redisVars, reqVars, te, ld, sandbox>>

\* validateResponse, when enabled (failed: the validator found errors in
\* context.res): in strict mode an error ends the request with a problem
\* document, in warn mode the validator logs and answers null
HrValidateResponse(responseError) ==
  /\ hr.pc = "validate"
  /\ hr' = IF sandbox.validate.responses = "strict" /\ responseError
           THEN [hr EXCEPT !.pc = "idle", !.failed = TRUE,
                           !.sent = Append(@, Problem(500, hr.requestId))]
           ELSE [hr EXCEPT !.pc = "send",
                           !.failed = responseError /\ sandbox.validate.responses # "off"]
  /\ UNCHANGED <<now, budget, memVars, contract, fileVars, redisVars, reqVars, te, ld, sandbox>>

\* sendResponse: setHeader raises on a header value it cannot carry, before
\* anything is sent
HrSendResponse ==
  /\ hr.pc = "send"
  /\ hr' = IF ~hr.res.hdrOk THEN [hr EXCEPT !.pc = "catch"]
           ELSE [hr EXCEPT !.pc = "idle", !.sent = Append(@, Response(hr.res, hr.requestId))]
  /\ UNCHANGED <<now, budget, memVars, contract, fileVars, redisVars, reqVars, te, ld, sandbox>>

\* a catch that empties the store before it answers
HrCatchRollback ==
  /\ hr.pc = "catch"
  /\ mcache' = <<>>
  /\ hr' = [hr EXCEPT !.pc = "idle", !.sent = Append(@, Problem(500, hr.requestId))]
  /\ UNCHANGED <<now, budget, maxSize, defaultTtl, wheel, lastCleanup, mtask, contract,
                 fileVars, redisVars, reqVars, te, ld, sandbox>>

\* the catch of handleRequest
HrCatch ==
  /\ hr.pc = "catch"
  /\ hr' = [hr EXCEPT !.pc = "idle", !.sent = Append(@, Problem(500, hr.requestId))]
  /\ UNCHANGED <<now, budget, memVars, contract, fileVars, redisVars, reqVars, te, ld, sandbox>>

HrStep ==
  \/ HrParseError
  \/ HrUnmatched
  \/ HrInvalidRequest
  \/ HrCreateContext
  \/ HrDefaultResponse
  \/ HrExecuteRule
  \/ HrRespond
  \/ HrStateSet
  \/ HrStateIncrement
  \/ HrIf
  \/ HrRulesDone
  \/ \E responseError \in BOOLEAN : HrValidateResponse(responseError)
  \/ HrSendResponse
  \/ HrCatch

(* -------------------------------- delay -------------------------------- *)
\* convertTimeUnit
ConvertTimeUnit(value, unit) ==
  IF unit = "s" THEN value * MsPerSec
  ELSE IF unit = "m" THEN value * 60 * MsPerSec
  ELSE IF unit = "h" THEN value * 60 * 60 * MsPerSec
  ELSE value

\* parseDelayString: the number after p95=, the mean before the sign, or the
\* number itself, with the unit that follows that number ('ms' when none does:
\* the mean of a distribution has its unit after the jitter, not after it)
ParseDelayString(delay) ==
  IF delay.kind = "dist" THEN ConvertTimeUnit(delay.mean, "ms")
  ELSE ConvertTimeUnit(delay.mean, IF delay.unit = "" THEN "ms" ELSE delay.unit)

\* Math.max(0, milliseconds)
NotNegative(milliseconds) == IF milliseconds < 0 THEN 0 ELSE milliseconds

\* handleDelay: the time the request is suspended for; randomJitter is
\* (Math.random() - 0.5) * 2 * jitter, over the digits of the two parts
Milliseconds(delay, randomJitter) ==
  NotNegative(IF delay.kind = "number" THEN delay.mean
              ELSE IF delay.kind = "dist" THEN delay.mean + randomJitter
              ELSE ParseDelayString(delay))

HandleDelay(delay, randomJitter) ==
  /\ budget > 0
  /\ budget' = budget - 1
  /\ hr' = [hr EXCEPT !.delay = delay, !.slept = Milliseconds(delay, randomJitter)]
  /\ UNCHANGED <<now, memVars, contract, fileVars, redisVars, reqVars, sandbox, te, ld>>

(* --------------------------- template engine --------------------------- *)
MaxExpressionLength == 1000
Engines == {1, 2}
Seeds == {"", "s1"}
Uuids == {"u1", "u2"}

\* the expressions of the model: a request part, an unbound name, a name of
\* the runtime, a call of the state API, the context's now, uuid, rand and
\* string literals (one of them 999 characters long, one holding two dots)
EQuery == "req.query.q"
EVars == "vars.n"
EProcess == "typeof process"
ESet == "state.set('k1', 1)"
ENow == "now.getTime()"
EUuid == "uuid()"
ERand == "rand(1, 6)"
ELong == "'aaa...a'"
EDots == "'a..b'"
TeExprs == {EQuery, EVars, EProcess, ESet, ENow, EUuid, ERand, ELong, EDots}

\* expression.length
ExprLength(expression) ==
  IF expression = ELong THEN MaxExpressionLength + 1
  ELSE IF expression \in {EQuery, EDots} THEN 11
  ELSE IF expression = EVars THEN 6
  ELSE IF expression = EProcess THEN 14
  ELSE IF expression = ESet THEN 18
  ELSE IF expression = ENow THEN 13
  ELSE IF expression = EUuid THEN 6
  ELSE 10

\* the words of an expression, as \b delimits them
Words(expression) ==
  IF expression = EQuery THEN {"req", "query", "q"}
  ELSE IF expression = EVars THEN {"vars", "n"}
  ELSE IF expression = EProcess THEN {"typeof", "process"}
  ELSE IF expression = ESet THEN {"state", "set", "k1", "1"}
  ELSE IF expression = ENow THEN {"now", "getTime"}
  ELSE IF expression = EUuid THEN {"uuid"}
  ELSE IF expression = ERand THEN {"rand", "1", "6"}
  ELSE IF expression = ELong THEN {"aaa...a"}
  ELSE {"a", "b"}

DangerousWords ==
  {"process", "window", "global", "require", "import", "eval", "Function", "constructor",
   "__proto__", "prototype", "setTimeout", "setInterval", "setImmediate", "Buffer", "fs",
   "path", "os", "child_process", "cluster", "dgram", "dns", "http", "https", "net", "tls",
   "url", "querystring"}

\* containsDangerousCode: a deny-listed word, or two dots in a row
ContainsDangerousCode(expression) ==
  Words(expression) \cap DangerousWords # {} \/ expression = EDots

\* what evaluate() checks before it evaluates
Refused(expression) ==
  ExprLength(expression) > MaxExpressionLength \/ ContainsDangerousCode(expression)

\* constructor: seed || 'default-seed', and the generator at its start
TemplateEngineNew(seed) ==
  [seed |-> IF seed = "" THEN "default-seed" ELSE seed, draws |-> 0]

\* the value rand() computes from the index-th number of the seed's stream
DrawV(seed, index) == [t |-> "draw", n |-> index, s |-> seed, a |-> <<>>, o |-> NoFields]

\* String(result)
TeString(v) ==
  IF v.t = "draw" THEN "rand:" \o v.s \o ":" \o ToString(v.n) ELSE RenderValue(v)

\* createContext: what the expression is evaluated with (now: new Date() of
\* this call; state: the state API of the request, over the store; the
\* engine's generator; the identifier uuidv4 hands out)
TemplateContext(i, q, uuid) ==
  [q |-> q, now |-> now, uuid |-> uuid, seed |-> te.eng[i].seed, draws |-> te.eng[i].draws,
   cache |-> mcache, wheel |-> wheel, ran |-> te.ran]

\* evaluateWithContext: the safe evaluator runs the expression as the body of
\* a function of req, session, state, now, uuid, rand, faker, math, util and
\* the built-ins; the names of the runtime are in its scope as in any function
TeEvaluateWithContext(expression, c) ==
  LET c1 == [c EXCEPT !.ran = Append(@, expression)]
      key == BuildStateKey("k1", "GLOBAL", "session")
  IN IF expression = EQuery
     THEN [r |-> Returned(IF c.q = Absent THEN Undef ELSE StrV(c.q)), c |-> c1]
     ELSE IF expression = EProcess THEN [r |-> Returned(StrV("object")), c |-> c1]
     ELSE IF expression = ESet
     THEN [r |-> Returned(StrV("[object Promise]")),
           c |-> [c1 EXCEPT !.cache = MemSetCache(c.cache, key, NumV(1), NoTtl, c.now),
                            !.wheel = MemSetWheel(c.wheel, key, NumV(1), NoTtl, c.now)]]
     ELSE IF expression = ENow THEN [r |-> Returned(NumV(c.now)), c |-> c1]
     ELSE IF expression = EUuid THEN [r |-> Returned(StrV(c.uuid)), c |-> c1]
     ELSE IF expression = ERand
     THEN [r |-> Returned(DrawV(c.seed, c.draws + 1)), c |-> [c1 EXCEPT !.draws = @ + 1]]
     ELSE IF expression = ELong THEN [r |-> Returned(StrV("aaa...a")), c |-> c1]
     ELSE IF expression = EDots THEN [r |-> Returned(StrV("a..b")), c |-> c1]
     ELSE [r |-> Raised, c |-> c1]

\* a template: literal text and {{ expression }} placeholders
Lit(text) == [ph |-> FALSE, text |-> text]
Ph(expression) == [ph |-> TRUE, text |-> expression]

\* a placeholder replaced by nothing
Erased(part) == ""

\* the match as it stands in the template
Written(part) == IF part.ph THEN "{{" \o part.text \o "}}" ELSE part.text

\* render: template.replace over the placeholders from left to right, each
\* evaluated with the one context of the call; a raising one is left as it is
RECURSIVE RenderParts(_, _)
RenderParts(parts, c) ==
  IF parts = <<>> THEN [text |-> "", c |-> c]
  ELSE LET e == IF parts[1].ph THEN TeEvaluateWithContext(parts[1].text, c)
                ELSE [r |-> Raised, c |-> c]
           piece == IF ~parts[1].ph THEN parts[1].text
                    ELSE IF e.r.raised THEN Written(parts[1])
                    ELSE TeString(e.r.value)
           rest == RenderParts(Tail(parts), e.c)
       IN [text |-> piece \o rest.text, c |-> rest.c]

NoEngines ==
  [eng |-> <<>>, ran |-> <<>>, calls |-> <<>>, nows |-> {}, request |-> 0]

\* a call of the engine as the caller saw it
TeCall(i, op, input, q, raised, value) ==
  [engine |-> i, op |-> op, input |-> input, q |-> q, raised |-> raised, value |-> value]

\* new TemplateEngine(seed), twice
TeConstruct(seedA, seedB) ==
  /\ te.eng = <<>>
  /\ te' = [te EXCEPT !.eng = <<TemplateEngineNew(seedA), TemplateEngineNew(seedB)>>]
  /\ UNCHANGED <<now, budget, memVars, contract, fileVars, redisVars, reqVars, sbVars, ld>>

\* Sandbox.createContext: the rule context of the next request
TeRequest ==
  /\ te.eng # <<>> /\ budget > 0
  /\ budget' = budget - 1
  /\ te' = [te EXCEPT !.request = @ + 1, !.nows = {}]
  /\ UNCHANGED <<now, memVars, contract, fileVars, redisVars, reqVars, sbVars, ld>>

\* what a call leaves behind: the generator, the store, the record of the call
TeAfter(i, c, call) ==
  /\ te' = [te EXCEPT !.eng[i].draws = c.draws, !.ran = c.ran,
                      !.calls = Append(@, call), !.nows = @ \cup {c.now}]
  /\ mcache' = c.cache
  /\ wheel' = c.wheel

\* render(template, context) for a string template
TeRender(i, template, q, uuid) ==
  /\ te.eng # <<>> /\ te.request > 0 /\ budget > 0
  /\ budget' = budget - 1
  /\ LET done == RenderParts(template, TemplateContext(i, q, uuid))
     IN TeAfter(i, done.c, TeCall(i, "render", template, q, FALSE, StrV(done.text)))
  /\ UNCHANGED <<now, maxSize, defaultTtl, lastCleanup, mtask, contract, fileVars, redisVars,
                 reqVars, sbVars, ld>>

\* evaluate(expression, context)
TeEvaluate(i, expression, q, uuid) ==
  /\ te.eng # <<>> /\ te.request > 0 /\ budget > 0
  /\ budget' = budget - 1
  /\ IF Refused(expression)
     THEN /\ te' = [te EXCEPT !.calls = Append(@, TeCall(i, "evaluate", expression, q, TRUE, Undef))]
          /\ UNCHANGED <<mcache, wheel>>
     ELSE LET done == TeEvaluateWithContext(expression, TemplateContext(i, q, uuid))
          IN TeAfter(i, done.c,
                     TeCall(i, "evaluate", expression, q, done.r.raised, done.r.value))
  /\ UNCHANGED <<now, maxSize, defaultTtl, lastCleanup, mtask, contract, fileVars, redisVars,
                 reqVars, sbVars, ld>>

(* ------------------------------ session ------------------------------ *)
Pair(name, parts) == [name |-> name, parts |-> parts]
Raw(sessionHeader, hasCookie, cookie, authorization) ==
  [xSandboxSession |-> sessionHeader, hasCookie |-> hasCookie, cookie |-> cookie,
   authorization |-> authorization]

\* valueParts.join('=')
RECURSIVE JoinParts(_)
JoinParts(parts) ==
  IF parts = <<>> THEN ""
  ELSE IF Len(parts) = 1 THEN parts[1]
  ELSE parts[1] \o "=" \o JoinParts(Tail(parts))

\* parseRequest, headers: Array.isArray(value) ? value[0] : value
HeaderValue(values) == IF values = <<>> THEN Absent ELSE values[1]

\* parseRequest, cookies: the pairs with a name and at least one = are kept,
\* a later pair replacing an earlier one of the same name
RECURSIVE CookieValue(_, _, _)
CookieValue(pairs, name, found) ==
  IF pairs = <<>> THEN found
  ELSE CookieValue(Tail(pairs), name,
                   IF pairs[1].name = name /\ pairs[1].parts # <<>>
                   THEN JoinParts(pairs[1].parts) ELSE found)

ParseRequest(raw) ==
  [headers |-> [name \in {"x-sandbox-session", "authorization"} |->
                  IF name = "x-sandbox-session" THEN HeaderValue(raw.xSandboxSession)
                  ELSE HeaderValue(raw.authorization)],
   cookies |-> [name \in {"sandbox_session"} |->
                  IF raw.hasCookie THEN CookieValue(raw.cookie, name, Absent) ELSE Absent]]

\* a lookup as `if (value)` and the return see it
Looked(value) == IF value = Absent THEN "" ELSE value

\* handleRequest up to createContext: parseRequest, then extractSessionId
SessionRequest(raw) ==
  /\ req.pc = "idle" /\ budget > 0
  /\ budget' = budget - 1
  /\ LET parsed == ParseRequest(raw)
     IN req' = [NoReq EXCEPT
                  !.raw = raw,
                  !.sessionId = ExtractSessionId(Looked(parsed.headers["x-sandbox-session"]),
                                                 Looked(parsed.cookies["sandbox_session"]),
                                                 Looked(parsed.headers["authorization"]))]
  /\ UNCHANGED <<now, memVars, contract, fileVars, redisVars, sbVars, te, ld, obs, writer>>

(* ------------------------------- loader ------------------------------- *)
\* a path template: its segments, each literal text or a capture variable
Literal(text) == [cap |-> FALSE, text |-> text]
Capture(name) == [cap |-> TRUE, text |-> name]

\* the template as the document writes it
RECURSIVE PathText(_)
PathText(template) ==
  IF template = <<>> THEN ""
  ELSE "/" \o (IF template[1].cap THEN "{" \o template[1].text \o "}" ELSE template[1].text)
           \o PathText(Tail(template))

\* pathToRegexp(pathTemplate, keys): the keys are the capture variables, and
\* the expression accepts the paths with the template's literal segments and
\* any one segment per capture
ParamNames(template) == SelectSeq(template, LAMBDA seg : seg.cap)
PathRegexTest(template, path) ==
  /\ Len(template) = Len(path)
  /\ \A n \in DOMAIN template : template[n].cap \/ template[n].text = path[n]

\* the schema of an operation's response: given inline, or a $ref
LocalPet == "#/components/schemas/Pet"
LocalMissing == "#/components/schemas/Missing"
Remote == "common.yaml#/components/schemas/Pet"
Inline(name) == [ref |-> "", schema |-> name]
Ref(ref) == [ref |-> ref, schema |-> ""]

\* ref.startsWith('#/')
IsLocalRef(ref) == ref \in {LocalPet, LocalMissing}

\* resolveLocalReference: the walk down the document finds every segment
RefFound(document, ref) ==
  (ref = LocalPet /\ "Pet" \in document.schemas)
    \/ (ref = LocalMissing /\ "Missing" \in document.schemas)
ResolveLocalReference(document, ref) ==
  IF ref = LocalPet THEN Inline("Pet") ELSE Inline("Missing")

\* the replacer of resolveReferences: a local $ref is replaced by its target,
\* anything else is kept as it is
ResolveNode(document, node) ==
  IF node.ref # "" /\ IsLocalRef(node.ref) THEN ResolveLocalReference(document, node.ref)
  ELSE node

\* JSON.stringify walks the whole document, the Pet schema under components
\* included: a property of it holding a local $ref is replaced by the target,
\* and a target that is the schema being walked is on the serializer's stack
\* (TypeError: circular structure)
CircularRaises(document) ==
  "Pet" \in document.schemas /\ document.inner = LocalPet

\* resolveReferences raises when resolveLocalReference does, and when the
\* serializer does
ResolveRaises(document) ==
  \/ \E n \in DOMAIN document.operations :
       LET node == document.operations[n].response
       IN node.ref # "" /\ IsLocalRef(node.ref) /\ ~RefFound(document, node.ref)
  \/ ("Pet" \in document.schemas /\ document.inner # "" /\ IsLocalRef(document.inner)
        /\ ~RefFound(document, document.inner))
  \/ CircularRaises(document)

\* DataGenerator.generateFromReference over the generator's document: null on
\* a reference being visited or one that does not resolve, else the object
\* generated from the Pet schema, its property generated in turn
RECURSIVE GenerateFromReference(_, _, _)
GenerateFromReference(document, ref, visitedRefs) ==
  IF ref \in visitedRefs THEN "null"
  ELSE IF ~IsLocalRef(ref) \/ ~RefFound(document, ref) THEN "null"
  ELSE IF document.inner = "" THEN "{}"
  ELSE "{next:" \o GenerateFromReference(document, document.inner, visitedRefs \cup {ref})
         \o "}"

ResolveReferences(document) ==
  [document EXCEPT !.operations =
     [n \in DOMAIN document.operations |->
        [document.operations[n] EXCEPT !.response = ResolveNode(document, @)]]]

\* extractOperations: one resolved operation per path and method, kept in a
\* Map under its operationId
ResolvedOperation(operation) ==
  [operationId |-> operation.operationId, method |-> ToUpperCase(operation.method),
   path |-> PathText(operation.template), template |-> operation.template,
   paramNames |-> ParamNames(operation.template), response |-> operation.response]
RECURSIVE ExtractInto(_, _)
ExtractInto(operations, rest) ==
  IF rest = <<>> THEN operations
  ELSE ExtractInto(MapSet(operations, rest[1].operationId, ResolvedOperation(rest[1])),
                   Tail(rest))
ExtractOperations(document) == ExtractInto(<<>>, document.operations)

\* the matches in the order of the operation table
DeclarationOrder(matches) == matches

\* the comparator of findOperationsByPath
CompareSpecificity(a, b) ==
  IF Len(a.paramNames) # Len(b.paramNames) THEN Len(a.paramNames) - Len(b.paramNames)
  ELSE Len(b.path) - Len(a.path)

\* Array.prototype.sort with that comparator (stable)
RECURSIVE InsertOperation(_, _)
InsertOperation(sorted, operation) ==
  IF sorted = <<>> THEN <<operation>>
  ELSE IF CompareSpecificity(sorted[1], operation) > 0 THEN <<operation>> \o sorted
  ELSE <<sorted[1]>> \o InsertOperation(Tail(sorted), operation)
RECURSIVE SortOperationsInto(_, _)
SortOperationsInto(sorted, rest) ==
  IF rest = <<>> THEN sorted
  ELSE SortOperationsInto(InsertOperation(sorted, rest[1]), Tail(rest))
SortBySpecificity(matches) == SortOperationsInto(<<>>, matches)

\* findOperationsByPath
RECURSIVE MatchesOf(_, _, _)
MatchesOf(operations, method, path) ==
  IF operations = <<>> THEN <<>>
  ELSE (IF operations[1].e.method = ToUpperCase(method)
             /\ PathRegexTest(operations[1].e.template, path)
        THEN <<operations[1].e>> ELSE <<>>)
         \o MatchesOf(Tail(operations), method, path)
FindOperationsByPath(operations, method, path) ==
  SortBySpecificity(MatchesOf(operations, method, path))

NoResolved ==
  [operationId |-> "", method |-> "", path |-> "", template |-> <<>>, paramNames |-> <<>>,
   response |-> Inline("")]
NoAsked == [method |-> "", path |-> <<>>]
NoDocument == [schemas |-> {}, inner |-> "", operations |-> <<>>]
NoLoader ==
  [state |-> "new", source |-> NoDocument, operations |-> <<>>, asked |-> NoAsked,
   dispatched |-> NoResolved, generated |-> ""]

\* load(source) with a document object: resolveReferences, extractOperations
LoaderLoad(document) ==
  /\ ld.state = "new"
  /\ ld' = IF ResolveRaises(document)
           THEN [ld EXCEPT !.state = "raised", !.source = document]
           ELSE [ld EXCEPT !.state = "loaded", !.source = document,
                           !.operations = ExtractOperations(ResolveReferences(document))]
  /\ UNCHANGED <<now, budget, memVars, contract, fileVars, redisVars, reqVars, sbVars, te>>

\* new DataGenerator({document}).generate({$ref}): the document as given
LoaderGenerate(document, ref) ==
  /\ budget > 0
  /\ budget' = budget - 1
  /\ ld' = [ld EXCEPT !.generated = GenerateFromReference(document, ref, {})]
  /\ UNCHANGED <<now, memVars, contract, fileVars, redisVars, reqVars, sbVars, te>>

\* Router.match: the first of the operations findOperationsByPath returns
RouterMatch(method, path) ==
  /\ ld.state = "loaded" /\ budget > 0
  /\ budget' = budget - 1
  /\ LET operations == FindOperationsByPath(ld.operations, method, path)
     IN ld' = [ld EXCEPT !.asked = [method |-> method, path |-> path],
                         !.dispatched = IF operations = <<>> THEN NoResolved
                                        ELSE operations[1]]
  /\ UNCHANGED <<now, memVars, contract, fileVars, redisVars, reqVars, sbVars, te>>

(* --------------------------- specifications --------------------------- *)
InitAround ==
  /\ now = 0
  /\ budget = MaxOps
  /\ contract = [k \in Keys \cup CapKeys |-> NoContract]
  /\ InitFileStore
  /\ rdb = <<>>
  /\ rret = RCall("none", "", 0, Undef, Undef)
  /\ rpatch = NoFallback
  /\ req = NoReq
  /\ obs = NoObs
  /\ writer = <<>>
  /\ sandbox = NoSandbox
  /\ hr = NoCall
  /\ te = NoEngines
  /\ ld = NoLoader

Init == InitAround /\ InitMemStore

\* the in-memory store under set / get / del / increment / patch, the sweeper
\* and the clock
NextMem == MemStep \/ Tick
SpecMem == Init /\ [][NextMem]_vars

\* concurrent increment calls only
MemIncStep ==
  \/ \E t \in Tasks, k \in Keys, by \in Bys : MIncBegin(t, k, by)
  \/ \E t \in Tasks : MIncFinish(t)
NextMemInc == MemIncStep
SpecMemInc == Init /\ [][NextMemInc]_vars

\* the file store under its operations, periodic compaction, kills and restarts
NextFile ==
  \/ FileStep
  \/ CompStart \/ CompSnapWrite \/ CompSnapRename \/ CompCloseHandle \/ CompTruncate
  \/ CompReopen
  \/ Crash \/ Restart \/ Tick
SpecFile == Init /\ [][NextFile]_vars

\* the file store under its operations, periodic compaction, close() and
\* initialize() by its owner
NextFileClose ==
  FileStep \/ CompStep \/ ApiClose \/ CloseStep \/ Reopen \/ Tick
SpecFileClose == Init /\ [][NextFileClose]_vars

\* the file store under its operations and a termination signal
NextFileShutdown ==
  FileStep \/ Signal \/ ServerClose \/ CloseStep \/ Exit \/ Tick
SpecFileShutdown == Init /\ [][NextFileShutdown]_vars

\* the networked store under set / del / increment and the clock
NextRedis == RedisStep \/ Tick
SpecRedis == Init /\ [][NextRedis]_vars

\* requests handled one after the other on the in-memory store
NextReq == ReqStep
SpecReq == Init /\ [][NextReq]_vars

\* set and patch calls on one key of the in-memory and the file store, the
\* in-memory calls made one after the other
PSetVals ==
  {NumV(1), ArrV(<<1>>), ObjV([x \in Fields |-> IF x = "f" THEN 1 ELSE 0]),
   ObjV([x \in Fields |-> 1])}
PPatchVals ==
  {NumV(2), ArrV(<<2>>), ObjV([x \in Fields |-> IF x = "f" THEN 2 ELSE 0]),
   ObjV([x \in Fields |-> IF x = "g" THEN 2 ELSE 0])}
NextPatch ==
  \/ \E k \in FKeys, v \in PSetVals : MSet(k, v, NoTtl)
  \/ \E k \in FKeys, v \in PPatchVals : MPatchBegin(1, k, v)
  \/ MPatchFinish(1)
  \/ \E t \in FTasks, k \in FKeys, v \in PSetVals : FSet(t, k, v, NoTtl)
  \/ \E t \in FTasks, k \in FKeys, v \in PPatchVals : FPatchBegin(t, k, v)
  \/ \E t \in FTasks : FPatchMid(t)
  \/ \E t \in FTasks : FAck(t)
  \/ LogWriteOk
SpecPatch == Init /\ [][NextPatch]_vars

\* set and patch calls on one key of the networked store
RPSetVals == {NumV(1), ArrV(<<1>>), ObjV([x \in Fields |-> IF x = "f" THEN 1 ELSE 0])}
RPPatchVals ==
  {NumV(2), ArrV(<<2>>), ObjV([x \in Fields |-> IF x = "f" THEN 2 ELSE 0]),
   ObjV([x \in Fields |-> IF x = "g" THEN 2 ELSE 0])}
NextRedisPatch ==
  \/ \E k \in FKeys, v \in RPSetVals, ttl \in FTtls : RSet(k, v, ttl)
  \/ \E k \in FKeys, v \in RPPatchVals : RPatchScript(k, v)
  \/ \E k \in FKeys, v \in RPPatchVals : RFallbackRead(k, v)
  \/ RFallbackWrite
  \/ Tick
SpecRedisPatch == Init /\ [][NextRedisPatch]_vars

\* patch calls on one key of the in-memory store that may overlap
NextMemPatch ==
  \/ \E k \in FKeys, v \in PSetVals : MSet(k, v, NoTtl)
  \/ \E t \in Tasks, k \in FKeys, v \in PPatchVals : MPatchBegin(t, k, v)
  \/ \E t \in Tasks : MPatchFinish(t)
SpecMemPatch == Init /\ [][NextMemPatch]_vars

\* an in-memory store constructed with a small maxSize, under set and del
InitCap == InitAround /\ \E n \in CapSizes : MemoryStoreNew(n)
NextCap ==
  \/ \E k \in CapKeys, v \in SetVals : MSet(k, v, NoTtl)
  \/ \E k \in CapKeys : MDel(k)
SpecCap == InitCap /\ [][NextCap]_vars

\* a sandbox constructed with a scenario list and handling requests one at a
\* time: requests whose body cannot be read, requests for no operation, and
\* requests for an operation with a query parameter and a header or without
Request(operation, q, h, invalid, bodyOk) ==
  [operation |-> operation, q |-> q, h |-> h, invalid |-> invalid, bodyOk |-> bodyOk]
Requests ==
  {Request(NoOp, Absent, Absent, FALSE, FALSE), Request(NoOp, Absent, Absent, FALSE, TRUE)}
    \cup {Request(operation, q, h, invalid, TRUE) :
            operation \in Operations, q \in QueryVals, h \in HeaderVals, invalid \in BOOLEAN}
NextSandbox ==
  \/ \E list \in ScenarioLists, validate \in ValidateOptions : SandboxInitialize(list, validate)
  \/ \E r \in Requests : HrBegin(r.operation, r.q, r.h, r.invalid, r.bodyOk)
  \/ HrStep
SpecSandbox == Init /\ [][NextSandbox]_vars

\* the same, every continuation of a request in progress being run by the
\* event loop in the end
SpecSandboxLive == Init /\ [][NextSandbox]_vars /\ WF_vars(HrStep)

\* the templates of up to MaxParts parts over a set of parts
MaxParts == 2
Templates(parts) == UNION {[1..n -> parts] : n \in 1..MaxParts}

\* one engine serving the requests of a sandbox: the scenario engine renders
\* strings and evaluates conditions with the rule context of the request,
\* while the clock goes on
GateParts == {Lit("a"), Ph(EProcess), Ph(ESet), Ph(ENow)}
NextTemplate ==
  \/ \E seed \in Seeds : TeConstruct(seed, seed)
  \/ TeRequest
  \/ \E template \in Templates(GateParts) : TeRender(1, template, Absent, "u1")
  \/ \E expression \in TeExprs, q \in QueryVals : TeEvaluate(1, expression, q, "u1")
  \/ Tick
SpecTemplate == Init /\ [][NextTemplate]_vars

\* the same engine rendering templates whose placeholders succeed or fail
RenderParts3 == {Lit("a"), Ph(EQuery), Ph(EVars)}
NextRender ==
  \/ \E seed \in Seeds : TeConstruct(seed, seed)
  \/ TeRequest
  \/ \E template \in Templates(RenderParts3), q \in QueryVals : TeRender(1, template, q, "u1")
SpecRender == Init /\ [][NextRender]_vars

\* two independent engines evaluating expressions without side effects
SeedExprs == {EQuery, EUuid, ERand}
NextSeed ==
  \/ \E seedA \in Seeds, seedB \in Seeds : TeConstruct(seedA, seedB)
  \/ TeRequest
  \/ \E i \in Engines, expression \in SeedExprs, uuid \in Uuids :
       TeEvaluate(i, expression, "a", uuid)
SpecSeed == Init /\ [][NextSeed]_vars

\* requests with and without each of the three sources of the session
\* identifier, among them empty and repeated values
SessionHeaders == {<<>>, <<"">>, <<"s1">>, <<"s1", "s2">>}
CookieHeaders ==
  {<<>>, <<Pair("sandbox_session", <<"c1">>)>>, <<Pair("sandbox_session", <<"">>)>>,
   <<Pair("sandbox_session", <<>>)>>, <<Pair("other", <<"x">>)>>,
   <<Pair("other", <<"x">>), Pair("sandbox_session", <<"c1", "d">>)>>}
AuthHeaders == {<<>>, <<"">>, <<"a1">>}
RawRequests ==
  {Raw(sessionHeader, FALSE, <<>>, authorization) :
     sessionHeader \in SessionHeaders, authorization \in AuthHeaders}
    \cup {Raw(sessionHeader, TRUE, cookie, authorization) :
            sessionHeader \in SessionHeaders, cookie \in CookieHeaders,
            authorization \in AuthHeaders}
NextSession == \E raw \in RawRequests : SessionRequest(raw)
SpecSession == Init /\ [][NextSession]_vars

\* documents of up to MaxOperations operations: templates that overlap on
\* the same concrete paths, declared in every order, with inline schemas; and
\* operations whose response schema is a $ref that resolves, dangles or
\* points outside the document
MaxOperations == 2
PathTemplates ==
  {<<Literal("pets"), Literal("mine")>>, <<Literal("pets"), Capture("id")>>,
   <<Capture("kind"), Literal("mine")>>, <<Capture("a"), Capture("b")>>}
Declared(n, method, template, response) ==
  [operationId |-> "op" \o ToString(n), method |-> method, template |-> template,
   response |-> response]
RouteOperations(n) ==
  {Declared(n, method, template, Inline("Pet")) :
     method \in {"get", "post"}, template \in PathTemplates}
RefOperations(n) ==
  {Declared(n, "get", <<Literal("pets"), Capture("id")>>, response) :
     response \in {Inline("Pet"), Ref(LocalPet), Ref(LocalMissing), Ref(Remote)}}
OperationLists(among(_)) ==
  UNION {{list \in [1..n -> UNION {among(m) : m \in 1..n}] :
            \A m \in 1..n : list[m] \in among(m)} : n \in 1..MaxOperations}
\* documents whose Pet schema has a property referring to Pet itself
CyclicDocuments ==
  {[schemas |-> {"Pet"}, inner |-> LocalPet,
    operations |-> <<Declared(1, "get", <<Literal("pets"), Capture("id")>>, response)>>] :
     response \in {Inline("Pet"), Ref(LocalPet)}}
Documents ==
  {[schemas |-> {"Pet"}, inner |-> "", operations |-> list] :
     list \in OperationLists(RouteOperations)}
    \cup {[schemas |-> schemas, inner |-> "", operations |-> list] :
            schemas \in {{}, {"Pet"}}, list \in OperationLists(RefOperations)}
    \cup CyclicDocuments
ConcretePaths == {<<"pets", "mine">>, <<"pets", "7">>, <<"pets">>}
NextLoader ==
  \/ \E document \in Documents : LoaderLoad(document)
  \/ \E method \in {"GET", "post"}, path \in ConcretePaths : RouterMatch(method, path)
  \/ \E document \in CyclicDocuments, ref \in {LocalPet, Remote} :
       LoaderGenerate(document, ref)
SpecLoader == Init /\ [][NextLoader]_vars

\* delay actions in every form, the random number drawn over its range
DelayMeans == {0, 1, 2, 150}
DelayJitters == {0, 1, 5}
DelayUnits == {"", "ms", "s"}
Delays ==
  {Delay("number", mean, 0, "") : mean \in DelayMeans}
    \cup {Delay(kind, mean, 0, unit) :
            kind \in {"simple", "p95"}, mean \in DelayMeans, unit \in DelayUnits}
    \cup {Delay("dist", mean, jitter, unit) :
            mean \in DelayMeans, jitter \in DelayJitters, unit \in DelayUnits}
RandomJitters(delay) ==
  IF delay.kind = "dist" /\ delay.jitter > 0 THEN (0 - delay.jitter)..(delay.jitter - 1)
  ELSE {0}
NextDelay == \E delay \in Delays : \E randomJitter \in RandomJitters(delay) :
               HandleDelay(delay, randomJitter)
SpecDelay == Init /\ [][NextDelay]_vars

\* requests that write under keys and session identifiers with and without
\* a ':' in them, in both scopes
KeySessions == {"", "a", "a:b"}
KeyNames == {"c", "b:c"}
KeyScopes == {"session", "global"}
NextKeys ==
  \E hdr \in KeySessions, key \in KeyNames, scope \in KeyScopes, value \in ReqVals :
    KeyedSet(hdr, key, scope, value)
SpecKeys == Init /\ [][NextKeys]_vars

(* ------------------------------ claims -------------------------------- *)

\* C1: read-your-writes: after state.set has written V under K, a later
\* template expression of the same request that reads state['K'] observes V.
C1_ReadYourWrites ==
  (obs.kind = "template" /\ obs.want # Undef) => obs.got = obs.want

\* C2: session isolation: a value read under a logical key was written by the
\* same client: sessions named by different X-Sandbox-Session values, and the
\* request with no header, cookie or Authorization, never read each other's.
C2_SessionIsolation ==
  (/\ obs.kind = "get" /\ obs.got # Undef
   /\ obs.reader \in {Client(h, "", "") : h \in Headers}
   /\ obs.writer \in {Client(h, "", "") : h \in Headers})
    => obs.writer = obs.reader

\* C3: increment is atomic: once no increment call is in flight on a key, the
\* stored value is the starting value plus the sum of all the increments made
\* (no update is lost at any interleaving of the calls' suspension points).
C3_IncrementAtomic ==
  \A k \in Keys :
    (contract[k].kind = "inc" /\ \A t \in Tasks : ~(mtask[t].pc = "inc" /\ mtask[t].key = k))
      => MemGetResult(mcache, k, now) = contract[k].v

\* C4: file backend crash recovery: when the process is killed at any point
\* with every mutation made so far acknowledged, the next startup rebuilds for
\* every key exactly the value those mutations produced (none missing, none
\* applied twice).
C4_CrashRecovery ==
  [][(Restart /\ fsaved.kind = "crash" /\ fsaved.quiet)
       => \A k \in FKeys :
            FileGetResult(fcache', k, now) = FileGetResult(fsaved.cache, k, now)]_vars

\* C5: file backend close / reopen round trip: close() followed by initialize()
\* yields for every unexpired key the same get(k) as immediately before close().
C5_CloseReopenRoundTrip ==
  [][(Reopen /\ fsaved.kind = "close" /\ fsaved.quiet /\ fsaved.budget = budget)
       => \A k \in FKeys :
            FileGetResult(fsaved.cache, k, now) # Undef
              => FileGetResult(fcache', k, now) = FileGetResult(fsaved.cache, k, now)]_vars

\* C6: graceful shutdown: after a termination signal, once both shutdown
\* handlers have run, the snapshot on disk contains every unexpired entry the
\* store held when the signal arrived.
C6_ShutdownFlushesSnapshot ==
  [][(/\ Exit
      /\ fsaved.kind = "signal" /\ fsaved.quiet /\ fsaved.budget = budget
      /\ \A c \in Closers : fclose[c].pc \in {"done", "failed"})
       => \A i \in DOMAIN fsaved.cache :
            ~Expired(fsaved.cache[i].e, now)
              => \E j \in DOMAIN fsnap.lines : fsnap.lines[j] = fsaved.cache[i]]_vars

\* C7: get(k) returns v after set(k, v) with no later write while k is
\* unexpired, absent after set(k, v); del(k), and absent from the expiry fixed
\* by set(k, v, ttl) on, at any interleaving with the clock and the sweeper.
C7_BasicContract ==
  \A k \in Keys :
    /\ contract[k].kind = "set" =>
         MemGetResult(mcache, k, now) =
           (IF contract[k].exp # 0 /\ contract[k].exp <= now THEN Undef ELSE contract[k].v)
    /\ contract[k].kind = "del" => MemGetResult(mcache, k, now) = Undef

\* C8: the sweeper removes a key from the map only if that key's current
\* entry has expired.
C8_SweeperRemovesOnlyExpired ==
  [][MCleanup =>
       \A k \in Keys : (MapHas(mcache, k) /\ ~MapHas(mcache', k))
                          => Expired(MapGet(mcache, k), now)]_vars

\* C9: increment and patch preserve the prior expiry: a call that found the
\* key live (and was overtaken by no other write and no clock step) writes an
\* entry with the absolute expiry of the entry it replaces, and with none if
\* that had none.
C9_PreservesExpiry ==
  [][\A t \in Tasks :
       ((MIncFinish(t) \/ MPatchFinish(t))
          /\ mtask[t].current # Undef /\ mtask[t].at = now
          /\ MemGetResult(mcache, mtask[t].key, now) = mtask[t].current)
       => /\ MapHas(mcache', mtask[t].key)
          /\ MapGet(mcache', mtask[t].key).expiresAt
               = MapGet(mcache, mtask[t].key).expiresAt]_vars

\* C10: increment(k, by) returns p + by and a following get(k) returns p + by,
\* where p is the stored number, or 0 for an absent or non-numeric value; the
\* call never fails because of the type of the stored value.
C10_IncrementResult ==
  [][\A k \in Keys, by \in Bys :
       RIncrement(k, by)
         => /\ rret'.out = NumV(IncrementValue(rret'.prior, by))
            /\ RedisGetResult(rdb', k, now) = rret'.out]_vars

\* the merge table as the store contract states it
MergeTable(a, b) ==
  IF a.t = "undef" THEN b
  ELSE IF a.t = "obj" /\ b.t = "obj"
  THEN ObjV([x \in Fields |-> IF b.o[x] # 0 THEN b.o[x] ELSE a.o[x]])
  ELSE IF a.t = "arr" /\ b.t = "arr" THEN ArrV(a.a \o b.a)
  ELSE b

C12_RedisPatchSameMerge ==
  [][/\ \A k \in FKeys, v \in RPPatchVals :
          (RPatchScript(k, v) /\ RLive(rdb, k, now))
            => RedisGetResult(rdb', k, now) = MergeValue(RedisGetResult(rdb, k, now), v)
     /\ (RFallbackWrite /\ rpatch.current # Undef
           /\ RedisGetResult(rdb, rpatch.key, now) = rpatch.current)
          => RedisGetResult(rdb', rpatch.key, now) = MergeValue(rpatch.current, rpatch.arg)]_vars

\* C13: patch is atomic on the in-memory store: when a patch returns after
\* another patch that read the same value of the key has stored its merge, the
\* key holds both patches applied one after the other, in either order.
C13_PatchAtomic ==
  [][\A t \in Tasks, u \in Tasks :
       (/\ MPatchFinish(t)
        /\ u # t
        /\ mtask[u].op = "patch" /\ mtask[u].pc = "idle" /\ mtask[u].key = mtask[t].key
        /\ mtask[u].current = mtask[t].current
        /\ MemGetResult(mcache, mtask[t].key, now)
             = MergeTable(mtask[u].current, mtask[u].arg))
         => MemGetResult(mcache', mtask[t].key, now)
              \in {MergeTable(MergeTable(mtask[t].current, mtask[u].arg), mtask[t].arg),
                   MergeTable(MergeTable(mtask[t].current, mtask[t].arg), mtask[u].arg)}]_vars

\* C14: the in-memory store is bounded: the number of entries never exceeds
\* maxSize, whatever the string keys.
C14_BoundedByMaxSize == Len(mcache) <= maxSize

\* C15: every request, on every path, ends with exactly one response sent, and
\* that response carries the request's identifier in X-Request-ID: never more
\* than one response, one once the handling is over, and the handling of a
\* request received is over in the end.
C15_OneResponsePerRequest ==
  /\ [](/\ Len(hr.sent) <= 1
        /\ \A i \in DOMAIN hr.sent : hr.sent[i].xRequestId = hr.requestId
        /\ (hr.pc = "idle" /\ hr.requestId # 0) => Len(hr.sent) = 1)
  /\ (hr.pc # "idle") ~> (hr.pc = "idle" /\ Len(hr.sent) = 1)

\* a request whose rule raised has been answered, once, with the 500 document
C15_Witness ==
  /\ hr.pc = "idle" /\ hr.raisedAt > 0
  /\ hr.sent = <<Problem(500, hr.requestId)>>

\* C16: once an action of a request has raised, no further action runs, of
\* that rule or of a later one, and what the client receives is the 500
\* problem document, whatever earlier actions had set as response.
C16_RaiseAbortsWith500 ==
  hr.raisedAt > 0 =>
    /\ hr.ran = hr.raisedAt
    /\ hr.pc \in {"catch", "idle"}
    /\ hr.pc = "idle" => hr.sent = <<Problem(500, hr.requestId)>>

\* a rule has set a response, then raised, with an action and a rule left to
\* run, and the request has been answered
C16_Witness ==
  /\ hr.raisedAt > 1 /\ hr.pc = "idle" /\ hr.responded # NoAct
  /\ hr.todo # <<>> /\ hr.next <= Len(hr.match)
  /\ hr.sent # <<>>

\* the rules of a list that match, by descending priority (0 when none is
\* given) and, among equal priorities, in the order of the list
RuleNames(rules) == [i \in DOMAIN rules |-> rules[i].name]
ExpectedOrder(source, operation, q, h) ==
  LET idx == {i \in DOMAIN source : ScenarioMatches(source[i], operation, q, h)}
      Before(i, j) == \/ Priority(source[i]) > Priority(source[j])
                      \/ Priority(source[i]) = Priority(source[j]) /\ i < j
      order == CHOOSE s \in [1 .. Cardinality(idx) -> idx] :
                 \A a \in DOMAIN s, b \in DOMAIN s : a < b => Before(s[a], s[b])
  IN [k \in 1 .. Cardinality(idx) |-> source[order[k]].name]

\* C17: the rules run for a request are the matching ones in descending
\* priority, equal priorities in source order, whatever the order of the list
\* otherwise; they are started in that order, each after the actions of the
\* one before are over.
C17_RuleOrder ==
  /\ [](hr.pc \in {"execute", "validate", "send"} =>
          /\ RuleNames(hr.match)
               = ExpectedOrder(sandbox.source, hr.operation, hr.q, hr.h)
          /\ hr.started = SubSeq(RuleNames(hr.match), 1, Len(hr.started)))
  /\ [][Len(hr'.started) > Len(hr.started) => (hr.todo = <<>> /\ hr.pc = "execute")]_vars

\* two matching rules have run in the order opposite to the list's
C17_Witness ==
  /\ hr.pc = "validate" /\ Len(hr.started) = 2
  /\ hr.match # FindMatchingScenarios(sandbox.source, hr.operation, hr.q, hr.h)

\* C18: a rule with negate set is selected for a request exactly when the same
\* rule without negate would not be, also when it is the operation part of the
\* selector that does not match.
C18_NegateFlipsOutcome ==
  hr.pc \in {"execute", "validate", "send"} =>
    \A i \in DOMAIN sandbox.scenarios :
      LET rule == sandbox.scenarios[i]
          plain == [rule EXCEPT !.when.negate = FALSE]
      IN rule.when.negate =>
           ((\E j \in DOMAIN hr.match : hr.match[j] = rule)
              <=> ~ScenarioMatches(plain, hr.operation, hr.q, hr.h))

\* C19: after state.increment with `as: n`, a later respond whose templated
\* body reads vars.n is sent with the number that increment returned (1, 2, 3
\* on three successive requests).
C19_VarsBoundAfterIncrement ==
  (/\ hr.pc = "idle" /\ hr.n # Undef
   /\ hr.responded.a = "respond" /\ hr.responded.tflag
   /\ hr.responded.body.msg = "{{vars.n}}"
   /\ hr.sent # <<>> /\ ~hr.sent[1].problem)
    => hr.sent[1].body.msg = ToString(hr.n.n)

\* the body a respond action is to publish: under a marker, the marker removed
\* and the strings rendered; without any marker, the body as written
PublishedInner(inner, underMarker, q) ==
  IF inner.present /\ (underMarker \/ inner.marker)
  THEN [inner EXCEPT !.marker = FALSE, !.msg = Render(inner.msg, q)]
  ELSE inner
PublishedBody(body, q) ==
  IF body.present /\ body.marker
  THEN [body EXCEPT !.marker = FALSE, !.msg = Render(body.msg, q),
                    !.inner = PublishedInner(body.inner, TRUE, q)]
  ELSE [body EXCEPT !.inner = PublishedInner(body.inner, FALSE, q)]

\* C20: a respond action whose body contains `$template: true` publishes the
\* body with the marker removed and every string beneath it rendered; a body
\* without the marker is published unchanged.
C20_TemplateMarker ==
  hr.responded.a = "respond" => hr.res.body = PublishedBody(hr.responded.body, hr.q)


C22_GateOnEveryPath ==
  \A n \in DOMAIN te.ran : ~Refused(te.ran[n])

\* C23: templates see the state read-only. A call of render or evaluate,
\* whatever the expression and the store contents, leaves the store as it was.
C23_TemplatesLeaveStore ==
  [][te'.calls # te.calls => mcache' = mcache]_vars

\* C24: now is fixed per request. All renders and evaluations made for one
\* request observe the same timestamp.
C24_NowFixedPerRequest ==
  Cardinality(te.nows) <= 1

\* the calls one engine has answered, in their order
CallsOf(i) == SelectSeq(te.calls, LAMBDA call : call.engine = i)

\* C25: seed determinism. Two engines constructed with the same seed that have
\* been given the same sequence of side-effect-free expressions (uuid(),
\* rand() among them) have returned the same results, call by call.
C25_SeedDeterminism ==
  (te.eng # <<>> /\ te.eng[1].seed = te.eng[2].seed) =>
    \A n \in 1..Len(CallsOf(1)) :
      (n <= Len(CallsOf(2)) /\ \A m \in 1..n : CallsOf(1)[m].input = CallsOf(2)[m].input)
        => (CallsOf(1)[n].raised = CallsOf(2)[n].raised
              /\ CallsOf(1)[n].value = CallsOf(2)[n].value)

\* what the claim expects of a part: literal text stays, the placeholder of
\* the query parameter becomes its value (nothing when it is absent), the
\* placeholder of the unbound name, whose evaluation fails, stays as written
ExpectedPiece(part, q) ==
  IF ~part.ph THEN part.text
  ELSE IF part.text = EQuery THEN (IF q = Absent THEN "" ELSE q)
  ELSE "{{vars.n}}"
RECURSIVE ExpectedText(_, _)
ExpectedText(template, q) ==
  IF template = <<>> THEN ""
  ELSE ExpectedPiece(template[1], q) \o ExpectedText(Tail(template), q)

\* C26: render never raises; it returns the template with every placeholder
\* whose evaluation fails exactly as it was written and every other
\* placeholder replaced by its value.
C26_RenderKeepsFailedPlaceholders ==
  \A n \in DOMAIN te.calls :
    te.calls[n].op = "render"
      => (~te.calls[n].raised
            /\ te.calls[n].value = StrV(ExpectedText(te.calls[n].input, te.calls[n].q)))
\* a template with a failing and a succeeding placeholder has been rendered
C26_Witness ==
  \E n \in DOMAIN te.calls :
    /\ te.calls[n].op = "render"
    /\ te.calls[n].input = <<Ph(EVars), Ph(EQuery)>> /\ te.calls[n].q = "a"
    /\ te.calls[n].value = StrV("{{vars.n}}a")

\* what the request carries: a source counts as present when it has a value
\* that is not empty
SentHeader(values) == IF values # <<>> /\ values[1] # "" THEN values[1] ELSE ""
SentCookie(raw) ==
  IF raw.hasCookie
       /\ \E n \in DOMAIN raw.cookie :
            raw.cookie[n].name = "sandbox_session" /\ raw.cookie[n].parts \notin {<<>>, <<"">>}
  THEN LET n == CHOOSE n \in DOMAIN raw.cookie : raw.cookie[n].name = "sandbox_session"
       IN IF Len(raw.cookie[n].parts) = 1 THEN raw.cookie[n].parts[1]
          ELSE raw.cookie[n].parts[1] \o "=" \o raw.cookie[n].parts[2]
  ELSE ""

C28_GlobalSentinel ==
  \A k \in LKeys :
    (req.sessionId = "GLOBAL" /\ req.wrote[k] # Undef)
      => (MapHas(mcache, BuildStateKey(k, req.sessionId, "global"))
            /\ MapGet(mcache, BuildStateKey(k, req.sessionId, "global")).value = req.wrote[k])

\* the operations of the table that the asked method and path match
Candidates ==
  {n \in DOMAIN ld.operations :
     /\ ld.operations[n].e.method = ToUpperCase(ld.asked.method)
     /\ PathRegexTest(ld.operations[n].e.template, ld.asked.path)}

C30_NoUnresolvedReference ==
  ld.state = "loaded" =>
    \A n \in DOMAIN ld.operations : ld.operations[n].e.response.ref = ""

\* C31: cyclic references terminate with the revisited reference yielding
\* null. Loading a document whose schemas refer to each other in a cycle
\* completes: a load raises only for a reference that is not found.
C31_CyclicLoadCompletes ==
  ld.state = "raised" =>
    \/ \E n \in DOMAIN ld.source.operations :
         LET node == ld.source.operations[n].response
         IN node.ref # "" /\ IsLocalRef(node.ref) /\ ~RefFound(ld.source, node.ref)
    \/ (ld.source.inner # "" /\ ~RefFound(ld.source, ld.source.inner))

\* the unit as the claim reads it
UnitMs(unit) == IF unit = "s" THEN 1000 ELSE 1

\* C32: a delay <mean>±<jitter><unit> suspends the request for a time between
\* (mean - jitter) and (mean + jitter) of that unit, and never for a negative
\* time.
C32_DelayWithinJitter ==
  hr.delay.kind = "dist" =>
    /\ hr.slept >= 0
    /\ hr.slept >= (hr.delay.mean - hr.delay.jitter) * UnitMs(hr.delay.unit)
    /\ hr.slept <= (hr.delay.mean + hr.delay.jitter) * UnitMs(hr.delay.unit)

\* C33: requests rejected before rule execution have no side effects. The
\* step that answers 404 (no operation) or 400 (request validation) is taken
\* straight after the request was parsed, no action having run, and neither
\* it nor the parsing touches the store.
C33_RejectedLeavesStore ==
  [][/\ (Len(hr'.sent) > Len(hr.sent) /\ hr'.sent[Len(hr'.sent)].status \in {400, 404})
          => (hr.pc = "parsed" /\ hr.ran = 0 /\ hr.started = <<>>
                /\ mcache' = mcache /\ wheel' = wheel)
     /\ hr'.pc = "parsed" => (mcache' = mcache /\ wheel' = wheel)]_vars
\* an invalid request was answered 400 while the store held an entry
C33_Witness ==
  /\ hr.pc = "idle" /\ hr.invalid /\ hr.sent = <<Problem(400, hr.requestId)>>
  /\ mcache # <<>>

RespondsOf(match) ==
  LET IsRespond(act) == act.a = "respond"
      from[i \in 1 .. Len(match) + 1] ==
        IF i > Len(match) THEN <<>> ELSE SelectSeq(match[i].do, IsRespond) \o from[i + 1]
  IN from[1]
\* the union of the responds' headers, the last respond that names a header
\* giving its value
UnionOfHeaders(responds) ==
  LET names == UNION {DOMAIN responds[i].headers : i \in DOMAIN responds}
      last(name) ==
        CHOOSE i \in DOMAIN responds :
          /\ name \in DOMAIN responds[i].headers
          /\ \A j \in DOMAIN responds : name \in DOMAIN responds[j].headers => j <= i
  IN [name \in names |-> responds[last(name)].headers[name]]
BodyOfRespond(respond, q) ==
  IF respond.body.present /\ respond.tflag THEN ProcessTemplate(respond.body, q)
  ELSE respond.body
TripleOf(w) ==
  IF w.scope = "global" THEN <<w.scope, "", w.key>> ELSE <<w.scope, w.sessionId, w.key>>
\* C39: the construction of the flat store key is injective: two writes
\* addressed by different (scope, session identifier, key) triples go to
\* different store keys, whatever the identifiers and keys contain.
C39_KeysInjective ==
  \A i \in DOMAIN req.keys, j \in DOMAIN req.keys :
    TripleOf(req.keys[i]) # TripleOf(req.keys[j])
      => req.keys[i].fullKey # req.keys[j].fullKey

\* the store at rest: no compaction under way, every call returned, every
\* queued write on disk
FileAtRest ==
  /\ proc = "running" /\ finit /\ fhandle = "open" /\ fcomp.pc = "idle"
  /\ fchain.q = <<>> /\ ~fchain.failed
  /\ \A t \in Tasks : ftask[t].pc = "idle"
\* C34: compaction is safe against concurrent writers on the file backend.
\* Once a compaction has finished, every acknowledged entry the store holds
\* is in the snapshot or in the log written since, so that a restart at that
\* moment recovers it.
C34_CompactionKeepsWrites ==
  FileAtRest
    => \A k \in FKeys :
         FileGetResult(fcache, k, now) # Undef
           => FileGetResult(InitializedCache(<<>>, fsnap.lines, flog, now), k, now) # Undef

\* the key has a line in the snapshot on disk, and that entry has expired
ExpiredInSnapshot(k) ==
  \E i \in DOMAIN fsnap.lines : fsnap.lines[i].k = k /\ Expired(fsnap.lines[i].e, now)
\* C35: startup never resurrects expired data on the file backend. When the
\* entry of a key has expired, in the store at rest and in the snapshot on
\* disk, a startup at that moment (loadFromSnapshot, then replayLog) leaves
\* the key unreadable, whatever increment or patch records the log holds.
C35_StartupKeepsExpired ==
  FileAtRest
    => \A k \in FKeys :
         (MapHas(fcache, k) /\ Expired(MapGet(fcache, k), now) /\ ExpiredInSnapshot(k))
           => FileGetResult(InitializedCache(<<>>, fsnap.lines, flog, now), k, now) = Undef

\* C36: reads never touch the disk on the file backend. No record queued for
\* the log comes from a get call, the get of an expired entry included; only
\* set, del, increment and patch append records.
C36_ReadsLeaveDisk ==
  \A i \in DOMAIN fchain.q : ftask[fchain.q[i].t].op # "get"

\* C40: a failed log append on the file backend affects only the operation
\* that issued it. A set, del, increment or patch that reaches its log append
\* while the log handle is open, no compaction under way and no write queued
\* ahead of it, is not rejected.
C40_StaysWritable ==
  [][\A t \in Tasks :
       (/\ proc = "running" /\ proc' = "running"
        /\ fhandle = "open" /\ fcomp.pc = "idle" /\ fchain.q = <<>>
        /\ ftask[t].pc \in {"idle", "inc_mid", "patch_mid"}
        /\ ftask'[t] # ftask[t])
         => ftask'[t].ret # Failed]_vars

====
